---- MODULE Spec2Model ----
(***************************************************************************)
(* A model of the reMarkable v6 .rm decoder of src/src/rm-parser.ts:       *)
(* the bounded binary reader, the tag and block framing, the four block    *)
(* decoders, the CRDT text resolution, the geometry compositor and the     *)
(* block scan of parseRmFile.                                              *)
(*                                                                         *)
(* Conventions.                                                            *)
(*  - A buffer is a sequence of bytes (0..255); data is the ArrayBuffer    *)
(*    handed to parseRmFile.                                               *)
(*  - A BinaryReader is a record [off, len, pos]: the DataView's           *)
(*    byteOffset and byteLength in data, and the cursor.                   *)
(*  - A call that can throw returns a record with a field ok; ok = FALSE   *)
(*    is the thrown exception (err names it), and the caller either        *)
(*    propagates it or, where the source has a try/catch, handles it.      *)
(*  - A nullable value is a sequence: None == <<>> is null, a CrdtId is    *)
(*    <<author, clock>>, a nullable number is <<v>>.                       *)
(*  - A JavaScript Map is a sequence of <<key, value>> pairs in insertion  *)
(*    order; crdtKey turns a CrdtId into its key.                          *)
(*  - A string is the sequence of its character codes.                     *)
(***************************************************************************)
EXTENDS Integers, Sequences, FiniteSets, TLC

VARIABLES
    data,             \* the input ArrayBuffer of parseRmFile
    scene,            \* what the buffer was encoded from (input description)
    call,             \* which call of parseRmFile on this buffer is running
    pc,               \* position in parseRmFile
    pos,              \* cursor of the top-level reader
    blockCount,       \* blocks dispatched so far
    lineItems,        \* LineItemResult[] collected by the scan
    sceneTreeEntries, \* SceneTreeEntry[] collected by the scan
    treeNodeMap,      \* Map<string, TreeNodeData>
    textResult,       \* RootTextResult | null
    strokes,          \* Stroke[] with the offsets applied
    applied,          \* per stroke: treeOffset and anchorY of its iteration
    page,             \* the returned Page (None until returned)
    prevPage,         \* the Page the previous call returned (None at first)
    blocks,           \* log of the block headers read, with their outcome
    rt                \* the run of resolveTextContent (text specification)

vars == <<data, scene, call, pc, pos, blockCount, lineItems, sceneTreeEntries,
          treeNodeMap, textResult, strokes, applied, page, prevPage, blocks, rt>>

None == <<>>

\* --- Constants ---

HEADER_LENGTH == 43

\* How often the caller decodes one buffer.
MaxCalls == 2

BLOCK_SCENE_TREE == 1
BLOCK_TREE_NODE == 2
BLOCK_LINE_ITEM == 5
BLOCK_ROOT_TEXT == 7

TAG_BYTE1 == 1
TAG_BYTE4 == 4
TAG_BYTE8 == 8
TAG_LENGTH4 == 12
TAG_ID == 15

ITEM_LINE == 3

\* --- Arithmetic helpers ---

RECURSIVE Pow2(_)
Pow2(n) == IF n = 0 THEN 1 ELSE 2 * Pow2(n - 1)

Max(a, b) == IF a >= b THEN a ELSE b

\* The 32 bits of a signed 32-bit integer, as the set of the positions set.
Bits32(v) ==
    LET u == IF v < 0 THEN v + Pow2(30) + Pow2(30) ELSE v   \* bits 0..30
    IN  {i \in 0..30 : (u \div Pow2(i)) % 2 = 1} \cup (IF v < 0 THEN {31} ELSE {})

RECURSIVE SumPow2(_)
SumPow2(S) ==
    IF S = {} THEN 0
    ELSE LET i == CHOOSE x \in S : TRUE IN Pow2(i) + SumPow2(S \ {i})

\* The signed 32-bit integer with exactly the bits of S set.
FromBits32(S) ==
    IF 31 \in S THEN (SumPow2(S \ {31}) - Pow2(30)) - Pow2(30) ELSE SumPow2(S)

\* result | ((b & 0x7f) << shift), with JavaScript's 32-bit semantics: the
\* shift count is taken modulo 32 and the bits shifted past bit 31 are lost.
OrShifted(result, b, shift) ==
    IF shift <= 21
    THEN result + (b % 128) * Pow2(shift)   \* disjoint bits below 2^28
    ELSE LET s == shift % 32
             moved == {i + s : i \in {j \in 0..6 : ((b % 128) \div Pow2(j)) % 2 = 1}}
         IN  FromBits32(Bits32(result) \cup (moved \cap (0..31)))

\* --- Binary reader ---

Throw(e) == [ok |-> FALSE, err |-> e]

\* new BinaryReader(buffer, offset, length): the DataView constructor throws
\* a RangeError when the view does not fit in the buffer.
NewReader(offset, length) ==
    IF offset > Len(data) \/ offset + length > Len(data)
    THEN Throw("RangeError")
    ELSE [ok |-> TRUE, r |-> [off |-> offset, len |-> length, pos |-> 0]]

tell(r) == r.pos
seek(r, p) == [r EXCEPT !.pos = p]
remaining(r) == r.len - r.pos

\* view.getUint8(i)
getUint8(r, i) == data[r.off + i + 1]

readU8(r) ==
    IF r.pos >= r.len THEN Throw("EOF")
    ELSE [ok |-> TRUE, val |-> getUint8(r, r.pos), r |-> [r EXCEPT !.pos = @ + 1]]

readU16(r) ==
    IF r.pos + 2 > r.len THEN Throw("EOF")
    ELSE [ok |-> TRUE,
          val |-> getUint8(r, r.pos) + 256 * getUint8(r, r.pos + 1),
          r |-> [r EXCEPT !.pos = @ + 2]]

\* Little-endian u32.  The inputs of this model keep the top byte below 0x80
\* so that the value stays inside TLC's integers.
readU32(r) ==
    IF r.pos + 4 > r.len THEN Throw("EOF")
    ELSE [ok |-> TRUE,
          val |-> getUint8(r, r.pos) + 256 * getUint8(r, r.pos + 1)
                  + 65536 * getUint8(r, r.pos + 2)
                  + 16777216 * getUint8(r, r.pos + 3),
          r |-> [r EXCEPT !.pos = @ + 4]]

\* The value of an IEEE-754 binary32 given by its four little-endian bytes.
\* Exact for the integer-valued floats; any other bit pattern (a fraction,
\* the negative zero, an infinity, a NaN) is kept as the opaque value
\* [f32 |-> bytes].
F32Value(b0, b1, b2, b3) ==
    LET e == (b3 % 128) * 2 + (b2 \div 128)
        m == (b2 % 128) * 65536 + b1 * 256 + b0
        sig == 8388608 + m
        neg == b3 >= 128
        mag == IF e >= 150 THEN sig * Pow2(e - 150) ELSE sig \div Pow2(150 - e)
    IN  IF e = 0 /\ m = 0 /\ ~neg THEN 0
        ELSE IF e >= 127 /\ e <= 156 /\ (e >= 150 \/ sig % Pow2(150 - e) = 0)
             THEN (IF neg THEN 0 - mag ELSE mag)
             ELSE [f32 |-> <<b0, b1, b2, b3>>]

readF32(r) ==
    IF r.pos + 4 > r.len THEN Throw("EOF")
    ELSE [ok |-> TRUE,
          val |-> F32Value(getUint8(r, r.pos), getUint8(r, r.pos + 1),
                           getUint8(r, r.pos + 2), getUint8(r, r.pos + 3)),
          r |-> [r EXCEPT !.pos = @ + 4]]

\* The value of an IEEE-754 binary64 given by its eight little-endian bytes.
\* Exact for the integers below 2^20 in magnitude; any other bit pattern is
\* kept as the opaque value [f64 |-> bytes].
F64Value(b) ==
    LET e == (b[8] % 128) * 16 + (b[7] \div 16)
        m == (b[7] % 16) * 65536 + b[6] * 256 + b[5]   \* the top 20 bits
        sig == 1048576 + m
        neg == b[8] >= 128
        low0 == b[1] = 0 /\ b[2] = 0 /\ b[3] = 0 /\ b[4] = 0
        mag == sig \div Pow2(1043 - e)
    IN  IF e = 0 /\ m = 0 /\ low0 THEN 0
        ELSE IF low0 /\ e >= 1023 /\ e <= 1043 /\ sig % Pow2(1043 - e) = 0
             THEN (IF neg THEN 0 - mag ELSE mag)
             ELSE [f64 |-> b]

readF64(r) ==
    IF r.pos + 8 > r.len THEN Throw("EOF")
    ELSE [ok |-> TRUE,
          val |-> F64Value([i \in 1..8 |-> getUint8(r, r.pos + i - 1)]),
          r |-> [r EXCEPT !.pos = @ + 8]]

RECURSIVE VarintLoop(_, _, _)
VarintLoop(r, result, shift) ==
    IF r.pos >= r.len THEN Throw("EOF")
    ELSE LET b == getUint8(r, r.pos)
             r1 == [r EXCEPT !.pos = @ + 1]
             res1 == OrShifted(result, b, shift)
         IN  IF b < 128 THEN [ok |-> TRUE, val |-> res1, r |-> r1]
             ELSE VarintLoop(r1, res1, shift + 7)

readVarint(r) == VarintLoop(r, 0, 0)

readBytes(r, n) ==
    IF r.pos + n > r.len THEN Throw("EOF")
    ELSE [ok |-> TRUE,
          val |-> [i \in 1..n |-> getUint8(r, r.pos + i - 1)],
          r |-> [r EXCEPT !.pos = @ + n]]

\* skip(n): no bounds check in the source.
skip(r, n) == [r EXCEPT !.pos = @ + n]

\* slice(offset, length): a reader over the same buffer; the view is placed
\* relative to the buffer, not to this reader's own region.
slice(r, offset, length) == NewReader(r.off + offset, length)

\* --- Sequencing of calls that can throw ---

\* const m = <call>; <K>: K runs on the result of a call that returned, a
\* thrown exception passes through.
Bind(m, K(_)) == IF ~m.ok THEN m ELSE K(m)

\* As Bind, where the exception leaves as the result fail.
BindOr(m, fail, K(_)) == IF ~m.ok THEN fail ELSE K(m)

\* const v = <expression>; <K>
Let(v, K(_)) == K(v)

\* --- CrdtId ---

readCrdtId(r) ==
    Bind(readU8(r), LAMBDA p1 :
    Bind(readVarint(p1.r), LAMBDA p2 :
    [ok |-> TRUE, val |-> <<p1.val, p2.val>>, r |-> p2.r]))

\* `${id[0]}:${id[1]}`: injective on pairs of integers, so the pair itself
\* stands for the key string.
crdtKey(id) == <<id[1], id[2]>>

ROOT_KEY == <<0, 0>>

\* --- Tag helpers ---

readTag(r) ==
    Bind(readVarint(r), LAMBDA raw :
    [ok |-> TRUE, index |-> raw.val \div 16, type |-> raw.val % 16, r |-> raw.r])

\* skipTagValue as it would be if a CrdtId field were skipped as one varint,
\* without the author byte before it.
skipTagValue_IdWithoutAuthor(r, tag) ==
    CASE tag.type = TAG_BYTE1 -> [ok |-> TRUE, r |-> skip(r, 1)]
      [] tag.type = TAG_BYTE4 -> [ok |-> TRUE, r |-> skip(r, 4)]
      [] tag.type = TAG_BYTE8 -> [ok |-> TRUE, r |-> skip(r, 8)]
      [] tag.type = TAG_LENGTH4 ->
            Bind(readU32(r), LAMBDA len : [ok |-> TRUE, r |-> skip(len.r, len.val)])
      [] OTHER ->
            Bind(readVarint(r), LAMBDA v : [ok |-> TRUE, r |-> v.r])

skipTagValue(r, tag) ==
    CASE tag.type = TAG_BYTE1 -> [ok |-> TRUE, r |-> skip(r, 1)]
      [] tag.type = TAG_BYTE4 -> [ok |-> TRUE, r |-> skip(r, 4)]
      [] tag.type = TAG_BYTE8 -> [ok |-> TRUE, r |-> skip(r, 8)]
      [] tag.type = TAG_LENGTH4 ->
            Bind(readU32(r), LAMBDA len : [ok |-> TRUE, r |-> skip(len.r, len.val)])
      [] OTHER ->
            \* TAG_ID skips the author byte first; the default case does not
            Bind(readVarint(IF tag.type = TAG_ID THEN skip(r, 1) ELSE r),
                 LAMBDA v : [ok |-> TRUE, r |-> v.r])

Some(x) == <<x>>

\* const len = reader.readU32(); const subReader = reader.slice(reader.tell(),
\* len); ...; reader.skip(len): the sub-reader and the reader after the skip.
SubBlock(r) ==
    Bind(readU32(r), LAMBDA len :
    Bind(slice(len.r, tell(len.r), len.val), LAMBDA s :
    [ok |-> TRUE, sub |-> s.r, after |-> skip(len.r, len.val)]))

\* --- Scene tree parsing ---

\* The loop over the field-4 sub-block of a SceneTree block (lines 281-288).
RECURSIVE SceneTreeParentLoop(_, _)
SceneTreeParentLoop(sub, parentId) ==
    IF remaining(sub) <= 0 THEN [ok |-> TRUE, parentId |-> parentId]
    ELSE Bind(readTag(sub), LAMBDA stag :
         IF stag.index = 1 /\ stag.type = TAG_ID
         THEN Bind(readCrdtId(stag.r), LAMBDA id :
                   SceneTreeParentLoop(id.r, id.val))
         ELSE Bind(skipTagValue(stag.r, stag), LAMBDA s :
                   SceneTreeParentLoop(s.r, parentId)))

RECURSIVE SceneTreeLoop(_, _, _, _)
SceneTreeLoop(r, treeId, nodeId, parentId) ==
    IF remaining(r) <= 0
    THEN [ok |-> TRUE,
          val |-> IF treeId = None \/ nodeId = None THEN None
                  ELSE Some([treeId |-> treeId, nodeId |-> nodeId,
                             parentId |-> parentId])]
    ELSE Bind(readTag(r), LAMBDA tag :
         IF tag.index \in {1, 2} /\ tag.type = TAG_ID
         THEN Bind(readCrdtId(tag.r), LAMBDA id :
                   IF tag.index = 1
                   THEN SceneTreeLoop(id.r, id.val, nodeId, parentId)
                   ELSE SceneTreeLoop(id.r, treeId, id.val, parentId))
         ELSE IF tag.index = 3 /\ tag.type = TAG_BYTE1
              THEN SceneTreeLoop(skip(tag.r, 1), treeId, nodeId, parentId)
         ELSE IF tag.index = 4 /\ tag.type = TAG_LENGTH4
              THEN Bind(SubBlock(tag.r), LAMBDA sb :
                   Bind(SceneTreeParentLoop(sb.sub, parentId), LAMBDA p :
                        SceneTreeLoop(sb.after, treeId, nodeId, p.parentId)))
         ELSE Bind(skipTagValue(tag.r, tag), LAMBDA s :
                   SceneTreeLoop(s.r, treeId, nodeId, parentId)))

parseSceneTreeBlock(reader) == SceneTreeLoop(reader, None, None, <<0, 0>>)

\* --- Tree node parsing ---

\* The loop over one last-writer-wins sub-block of a TreeNode block: field 1
\* is the timestamp, field 2 the value, a CrdtId (kind "id", field 7) or a
\* float (kind "f32", fields 10 and 13).  cur is the value held so far.
RECURSIVE LwwLoop(_, _, _)
LwwLoop(sub, kind, cur) ==
    IF remaining(sub) <= 0 THEN [ok |-> TRUE, val |-> cur]
    ELSE Bind(readTag(sub), LAMBDA lwwTag :
         IF lwwTag.index \in {1, 2} /\ lwwTag.type = TAG_ID
            /\ (lwwTag.index = 1 \/ kind = "id")
         THEN Bind(readCrdtId(lwwTag.r), LAMBDA id :
                   LwwLoop(id.r, kind, IF lwwTag.index = 1 THEN cur ELSE id.val))
         ELSE IF kind = "f32" /\ lwwTag.index = 2 /\ lwwTag.type = TAG_BYTE4
              THEN Bind(readF32(lwwTag.r), LAMBDA f :
                        LwwLoop(f.r, kind, Some(f.val)))
         ELSE Bind(skipTagValue(lwwTag.r, lwwTag), LAMBDA s :
                   LwwLoop(s.r, kind, cur)))

\* A last-writer-wins sub-block: its value and the reader after it.
LwwField(r, kind, cur) ==
    Bind(SubBlock(r), LAMBDA sb :
    Bind(LwwLoop(sb.sub, kind, cur), LAMBDA v :
    [ok |-> TRUE, val |-> v.val, r |-> sb.after]))

\* The last-writer-wins fields of a TreeNode block by tag index: the kind of
\* value and the field of TreeNodeData it sets.
LwwKind(index) == IF index = 7 THEN "id" ELSE "f32"
LwwTarget(index) ==
    CASE index = 7 -> "anchorId"
      [] index = 10 -> "anchorOriginX"
      [] index = 13 -> "anchorOriginY"

RECURSIVE TreeNodeLoop(_, _)
TreeNodeLoop(r, nd) ==
    IF remaining(r) <= 0
    THEN [ok |-> TRUE, val |-> IF nd.nodeId = None THEN None ELSE Some(nd)]
    ELSE Bind(readTag(r), LAMBDA tag :
         IF tag.index = 1 /\ tag.type = TAG_ID
         THEN Bind(readCrdtId(tag.r), LAMBDA id :
                   TreeNodeLoop(id.r, [nd EXCEPT !.nodeId = id.val]))
         ELSE IF tag.index \in {7, 10, 13} /\ tag.type = TAG_LENGTH4
              THEN Bind(LwwField(tag.r, LwwKind(tag.index), nd[LwwTarget(tag.index)]),
                        LAMBDA f :
                        TreeNodeLoop(f.r, [nd EXCEPT ![LwwTarget(tag.index)] = f.val]))
         ELSE Bind(skipTagValue(tag.r, tag), LAMBDA s : TreeNodeLoop(s.r, nd)))

parseTreeNodeBlock(reader) ==
    TreeNodeLoop(reader, [nodeId |-> None, anchorOriginX |-> None,
                          anchorOriginY |-> None, anchorId |-> None])

\* --- Point parsing ---

RECURSIVE parsePointsV2_NeedsMore(_)
\* parsePointsV2 as it would be if the loop asked for more than 14 bytes.
parsePointsV2_NeedsMore(r) ==
    IF remaining(r) <= 14 THEN <<>>
    ELSE Let(readF32(r), LAMBDA x :
         Let(readF32(x.r), LAMBDA y :
         Let(readU16(y.r), LAMBDA speed :
         Let(readU16(speed.r), LAMBDA width :
         Let(readU8(width.r), LAMBDA direction :
         Let(readU8(direction.r), LAMBDA pressure :
             <<[x |-> x.val, y |-> y.val, speed |-> speed.val,
                direction |-> direction.val, width |-> width.val,
                pressure |-> pressure.val]>>
             \o parsePointsV2_NeedsMore(pressure.r)))))))

RECURSIVE parsePointsV2(_)
parsePointsV2(r) ==
    IF remaining(r) < 14 THEN <<>>
    ELSE Let(readF32(r), LAMBDA x :
         Let(readF32(x.r), LAMBDA y :
         Let(readU16(y.r), LAMBDA speed :
         Let(readU16(speed.r), LAMBDA width :
         Let(readU8(width.r), LAMBDA direction :
         Let(readU8(direction.r), LAMBDA pressure :
             <<[x |-> x.val, y |-> y.val, speed |-> speed.val,
                direction |-> direction.val, width |-> width.val,
                pressure |-> pressure.val]>> \o parsePointsV2(pressure.r)))))))

\* --- LineItem block parsing ---

\* The u32 fields of a line value by tag index: what each sets on the stroke.
SetLineU32(stroke, index, v) ==
    CASE index = 1 -> [stroke EXCEPT !.penType = v]
      [] index = 2 -> [stroke EXCEPT !.color = v]
      [] index = 4 -> stroke
      [] index = 8 -> [stroke EXCEPT !.colorArgb = Some(v)]

RECURSIVE LineValueLoop(_, _)
LineValueLoop(r, stroke) ==
    IF remaining(r) <= 0 THEN [ok |-> TRUE, val |-> Some(stroke)]
    ELSE Bind(readTag(r), LAMBDA tag :
         IF tag.index \in {1, 2, 4, 8} /\ tag.type = TAG_BYTE4
         THEN Bind(readU32(tag.r), LAMBDA v :
                   LineValueLoop(v.r, SetLineU32(stroke, tag.index, v.val)))
         ELSE IF tag.index = 3 /\ tag.type = TAG_BYTE8
              THEN Bind(readF64(tag.r), LAMBDA v :
                        LineValueLoop(v.r, [stroke EXCEPT !.thicknessScale = v.val]))
         ELSE IF tag.index = 5 /\ tag.type = TAG_LENGTH4
              THEN Bind(SubBlock(tag.r), LAMBDA pts :
                        LineValueLoop(pts.after,
                                      [stroke EXCEPT !.points = parsePointsV2(pts.sub)]))
         \* TAG_ID: skip(1) and readVarint, which is what skipTagValue does
         ELSE Bind(skipTagValue(tag.r, tag), LAMBDA s : LineValueLoop(s.r, stroke)))

parseLineValue(reader) ==
    Bind(readU8(reader), LAMBDA itemType :
    IF itemType.val # ITEM_LINE THEN [ok |-> TRUE, val |-> None]
    ELSE LineValueLoop(itemType.r,
                       [penType |-> 0, color |-> 0, colorArgb |-> None,
                        thicknessScale |-> 1, points |-> <<>>]))

\* Field 6 of a LineItem block (lines 1011-1019): the block's result.
LineItemValue(r, parentId, deletedLength) ==
    Bind(readU32(r), LAMBDA subLen :
    IF deletedLength > 0 THEN [ok |-> TRUE, val |-> None]
    ELSE Bind(slice(subLen.r, tell(subLen.r), subLen.val), LAMBDA subReader :
         Bind(parseLineValue(subReader.r), LAMBDA stroke :
         IF stroke.val # None
         THEN [ok |-> TRUE,
               val |-> Some([parentId |-> parentId, stroke |-> stroke.val[1]])]
         ELSE [ok |-> TRUE, val |-> None])))

RECURSIVE LineItemLoop(_, _, _)
LineItemLoop(r, parentId, deletedLength) ==
    IF remaining(r) <= 0 THEN [ok |-> TRUE, val |-> None]
    ELSE Bind(readTag(r), LAMBDA tag :
         IF tag.index = 1 /\ tag.type = TAG_ID
         THEN Bind(readCrdtId(tag.r), LAMBDA id :
                   LineItemLoop(id.r, id.val, deletedLength))
         ELSE IF tag.index = 5 /\ tag.type = TAG_BYTE4
              THEN Bind(readU32(tag.r), LAMBDA v :
                        LineItemLoop(v.r, parentId, v.val))
         ELSE IF tag.index = 6 /\ tag.type = TAG_LENGTH4
              THEN LineItemValue(tag.r, parentId, deletedLength)
         \* fields 2..4 of type ID: skip(1) and readVarint, as skipTagValue does
         ELSE Bind(skipTagValue(tag.r, tag), LAMBDA s :
                   LineItemLoop(s.r, parentId, deletedLength)))

parseLineItemBlock(reader) == LineItemLoop(reader, <<0, 0>>, 0)

\* --- Maps (insertion-ordered, as a JavaScript Map) ---

MapHas(m, k) == \E i \in 1..Len(m) : m[i][1] = k

MapGet(m, k) == m[CHOOSE i \in 1..Len(m) : m[i][1] = k][2]

\* map.set(k, v): an existing key keeps its place.
MapSet(m, k, v) ==
    IF MapHas(m, k)
    THEN [i \in 1..Len(m) |-> IF m[i][1] = k THEN <<k, v>> ELSE m[i]]
    ELSE Append(m, <<k, v>>)

MapKeys(m) == {m[i][1] : i \in 1..Len(m)}

\* --- RootText parsing ---

Str(s) == [isNum |-> FALSE, s |-> s]
Num(n) == [isNum |-> TRUE, n |-> n]

\* new TextDecoder("utf-8").decode(bytes), for ASCII input: a byte below 0x80
\* is its own character; a byte that starts no valid sequence decodes to
\* U+FFFD.  (Multi-byte sequences are outside the inputs of this model.)
Utf8Decode(bytes) == [i \in 1..Len(bytes) |-> IF bytes[i] < 128 THEN bytes[i] ELSE 65533]

\* Lines 583-596: the format code after the string, null when the tag is not
\* (2, Byte4) or reading it throws (the catch seeks back).
TrailingFormatCode(r) ==
    IF remaining(r) < 2 THEN None
    ELSE BindOr(readTag(r), None, LAMBDA tag :
         IF tag.index = 2 /\ tag.type = TAG_BYTE4
         THEN BindOr(readU32(tag.r), None, LAMBDA code : Some(code.val))
         ELSE None)

parseTextValue(reader) ==
    Bind(readVarint(reader), LAMBDA strLen :
    Bind(readU8(strLen.r), LAMBDA isAscii :
    IF strLen.val > 0 /\ remaining(isAscii.r) >= strLen.val
    THEN Let(readBytes(isAscii.r, strLen.val), LAMBDA bytes :
             [ok |-> TRUE, text |-> Utf8Decode(bytes.val),
              formatCode |-> TrailingFormatCode(bytes.r)])
    ELSE [ok |-> TRUE, text |-> <<>>,
          formatCode |-> TrailingFormatCode(isAscii.r)]))

\* Lines 549-557: the value an item holds after its field 6; a throw of
\* parseTextValue is caught and leaves the value as it was.
TextValueOf(result, value) ==
    IF ~result.ok THEN value
    ELSE IF result.formatCode # None THEN Num(result.formatCode[1])
    ELSE Str(result.text)

\* The CrdtId fields of a text item by tag index.
TextItemIdField(index) ==
    CASE index = 2 -> "itemId"
      [] index = 3 -> "leftId"
      [] index = 4 -> "rightId"

RECURSIVE TextItemLoop(_, _)
TextItemLoop(r, item) ==
    IF remaining(r) <= 0
    THEN [ok |-> TRUE, val |-> IF item.itemId = None THEN None ELSE Some(item)]
    ELSE Bind(readTag(r), LAMBDA tag :
         IF tag.index \in {2, 3, 4} /\ tag.type = TAG_ID
         THEN Bind(readCrdtId(tag.r), LAMBDA id :
                   TextItemLoop(id.r, [item EXCEPT ![TextItemIdField(tag.index)] = id.val]))
         ELSE IF tag.index = 5 /\ tag.type = TAG_BYTE4
              THEN Bind(readU32(tag.r), LAMBDA v :
                        TextItemLoop(v.r, [item EXCEPT !.deletedLength = v.val]))
         ELSE IF tag.index = 6 /\ tag.type = TAG_LENGTH4
              THEN Bind(SubBlock(tag.r), LAMBDA sb :
                        TextItemLoop(sb.after,
                                     [item EXCEPT !.value =
                                          TextValueOf(parseTextValue(sb.sub), @)]))
         ELSE Bind(skipTagValue(tag.r, tag), LAMBDA s : TextItemLoop(s.r, item)))

parseTextItem(reader) ==
    TextItemLoop(reader, [itemId |-> None, leftId |-> <<0, 0>>, rightId |-> <<0, 0>>,
                          deletedLength |-> 0, value |-> Str(<<>>)])

\* Lines 518-521: the item is pushed unless parseTextItem threw or returned
\* null.
PushItem(textItems, item) ==
    IF item.ok /\ item.val # None THEN Append(textItems, item.val[1]) ELSE textItems

\* The text decoders below push onto the caller's arrays, so what they have
\* pushed stays when they throw: their result carries the arrays either way.
RECURSIVE TextItemListLoop(_, _, _, _)
TextItemListLoop(r, i, numItems, textItems) ==
    IF ~(i < numItems /\ remaining(r) > 0) THEN [ok |-> TRUE, items |-> textItems]
    ELSE BindOr(readTag(r), [ok |-> FALSE, items |-> textItems], LAMBDA tag :
         IF tag.type = TAG_LENGTH4
         THEN BindOr(SubBlock(tag.r), [ok |-> FALSE, items |-> textItems], LAMBDA sb :
                     TextItemListLoop(sb.after, i + 1, numItems,
                                      PushItem(textItems, parseTextItem(sb.sub))))
         ELSE BindOr(skipTagValue(tag.r, tag), [ok |-> FALSE, items |-> textItems],
                     LAMBDA s : TextItemListLoop(s.r, i + 1, numItems, textItems)))

parseTextItemList(reader, textItems) ==
    BindOr(readVarint(reader), [ok |-> FALSE, items |-> textItems], LAMBDA numItems :
           TextItemListLoop(numItems.r, 0, numItems.val, textItems))

RECURSIVE parseTextItemsContainer(_, _)
parseTextItemsContainer(reader, textItems) ==
    IF remaining(reader) <= 0 THEN [ok |-> TRUE, items |-> textItems]
    ELSE BindOr(readTag(reader), [ok |-> FALSE, items |-> textItems], LAMBDA tag :
         IF tag.index = 1 /\ tag.type = TAG_LENGTH4
         THEN BindOr(SubBlock(tag.r), [ok |-> FALSE, items |-> textItems], LAMBDA sb :
                     \* try { parseTextItemList } catch { }
                     parseTextItemsContainer(
                         sb.after, parseTextItemList(sb.sub, textItems).items))
         ELSE BindOr(skipTagValue(tag.r, tag), [ok |-> FALSE, items |-> textItems],
                     LAMBDA s : parseTextItemsContainer(s.r, textItems)))

\* Lines 634-642: the format sub-block of an entry.
FormatCodeOf(sub, formatCode) ==
    IF remaining(sub) >= 2 THEN getUint8(sub, 1) ELSE formatCode

\* The fields of one format entry after its raw charId (lines 630-646).
RECURSIVE FormatEntryLoop(_, _)
FormatEntryLoop(r, formatCode) ==
    IF remaining(r) <= 0 THEN [ok |-> TRUE, formatCode |-> formatCode, r |-> r]
    ELSE Bind(readTag(r), LAMBDA tag :
         IF tag.index = 1 /\ tag.type = TAG_ID
         THEN Bind(readCrdtId(tag.r), LAMBDA id : FormatEntryLoop(id.r, formatCode))
         ELSE IF tag.index = 2 /\ tag.type = TAG_LENGTH4
              THEN Bind(SubBlock(tag.r), LAMBDA sb :
                        [ok |-> TRUE, formatCode |-> FormatCodeOf(sb.sub, formatCode),
                         r |-> sb.after])
         ELSE Bind(skipTagValue(tag.r, tag), LAMBDA s :
                   FormatEntryLoop(s.r, formatCode)))

parseFormatEntry(reader) ==
    Bind(readCrdtId(reader), LAMBDA charId :
    Bind(FormatEntryLoop(charId.r, 1), LAMBDA e :
    [ok |-> TRUE, r |-> e.r,
     val |-> [charId |-> charId.val, formatCode |-> e.formatCode]]))

RECURSIVE FormatListLoop(_, _, _, _)
FormatListLoop(r, i, numFormats, textFormats) ==
    IF ~(i < numFormats /\ remaining(r) > 0) THEN [ok |-> TRUE, formats |-> textFormats]
    ELSE BindOr(parseFormatEntry(r), [ok |-> FALSE, formats |-> textFormats],
                LAMBDA fmt :
                FormatListLoop(fmt.r, i + 1, numFormats, Append(textFormats, fmt.val)))

parseFormatList(reader, textFormats) ==
    BindOr(readVarint(reader), [ok |-> FALSE, formats |-> textFormats],
           LAMBDA numFormats :
           FormatListLoop(numFormats.r, 0, numFormats.val, textFormats))

RECURSIVE parseFormattingContainer(_, _)
parseFormattingContainer(reader, textFormats) ==
    IF remaining(reader) <= 0 THEN [ok |-> TRUE, formats |-> textFormats]
    ELSE BindOr(readTag(reader), [ok |-> FALSE, formats |-> textFormats], LAMBDA tag :
         IF tag.index = 1 /\ tag.type = TAG_LENGTH4
         THEN BindOr(SubBlock(tag.r), [ok |-> FALSE, formats |-> textFormats],
                     LAMBDA sb :
                     \* try { parseFormatList } catch { }
                     parseFormattingContainer(
                         sb.after, parseFormatList(sb.sub, textFormats).formats))
         ELSE BindOr(skipTagValue(tag.r, tag), [ok |-> FALSE, formats |-> textFormats],
                     LAMBDA s : parseFormattingContainer(s.r, textFormats)))

\* What parseTextContent leaves in the caller's arrays, and whether it threw.
TextOut(ok, textItems, textFormats) ==
    [ok |-> ok, items |-> textItems, formats |-> textFormats]

RECURSIVE parseTextContent(_, _, _)
parseTextContent(reader, textItems, textFormats) ==
    IF remaining(reader) <= 0 THEN TextOut(TRUE, textItems, textFormats)
    ELSE BindOr(readTag(reader), TextOut(FALSE, textItems, textFormats), LAMBDA tag :
         IF tag.index \in {1, 2} /\ tag.type = TAG_LENGTH4
         THEN BindOr(SubBlock(tag.r), TextOut(FALSE, textItems, textFormats),
                     LAMBDA sb :
                     IF tag.index = 1
                     THEN parseTextContent(
                              sb.after,
                              parseTextItemsContainer(sb.sub, textItems).items,
                              textFormats)
                     ELSE parseTextContent(
                              sb.after, textItems,
                              parseFormattingContainer(sb.sub, textFormats).formats))
         ELSE BindOr(skipTagValue(tag.r, tag), TextOut(FALSE, textItems, textFormats),
                     LAMBDA s : parseTextContent(s.r, textItems, textFormats)))

\* --- CRDT text expansion ---

\* ExpandedChar as it would be if every item pushed kept item.rightId.
ExpandedChar_AllKeepRight(item, chars, deletedLength, i) ==
    [itemId |-> <<item.itemId[1], item.itemId[2] + (i - 1)>>,
     leftId |-> IF i = 1 THEN item.leftId
                ELSE <<item.itemId[1], item.itemId[2] + (i - 2)>>,
     rightId |-> item.rightId,
     deletedLength |-> deletedLength, value |-> Str(chars[i])]

\* The item that lines 679-686 push for chars[i]: its itemId is counted up
\* from item.itemId, its leftId is the itemId before it (item.leftId for the
\* first), its rightId the itemId after it (item.rightId for the last).
ExpandedChar(item, chars, deletedLength, i) ==
    [itemId |-> <<item.itemId[1], item.itemId[2] + (i - 1)>>,
     leftId |-> IF i = 1 THEN item.leftId
                ELSE <<item.itemId[1], item.itemId[2] + (i - 2)>>,
     rightId |-> IF i = Len(chars) THEN item.rightId
                 ELSE <<item.itemId[1], item.itemId[2] + i>>,
     deletedLength |-> deletedLength, value |-> Str(chars[i])]

expandChars(item, chars, deletedLength) ==
    [i \in 1..Len(chars) |-> ExpandedChar(item, chars, deletedLength, i)]

\* expandTextItem as it would be if a format code went on as an item of
\* no character.
expandTextItem_MarkerKeepsPlace(item) ==
    IF item.deletedLength > 0
    THEN expandChars(item, [i \in 1..item.deletedLength |-> <<>>], 1)
    ELSE IF item.value.isNum THEN <<[item EXCEPT !.value = Str(<<>>)]>>
    ELSE IF Len(item.value.s) = 0 THEN <<>>
    ELSE expandChars(item, [i \in 1..Len(item.value.s) |-> <<item.value.s[i]>>], 0)

expandTextItem(item) ==
    IF item.deletedLength > 0
    THEN expandChars(item, [i \in 1..item.deletedLength |-> <<>>], 1)
    ELSE IF item.value.isNum THEN <<item>>
    ELSE IF Len(item.value.s) = 0 THEN <<>>
    ELSE expandChars(item, [i \in 1..Len(item.value.s) |-> <<item.value.s[i]>>], 0)

RECURSIVE expandTextItems(_)
expandTextItems(items) ==
    IF items = <<>> THEN <<>>
    ELSE expandTextItem(Head(items)) \o expandTextItems(Tail(items))

\* --- Topological sort ---

\* compareCrdtId as it would be if the clock were compared first.
compareCrdtId_ClockFirst(a, b) == IF a[2] # b[2] THEN a[2] - b[2] ELSE a[1] - b[1]

compareCrdtId(a, b) == IF a[1] # b[1] THEN a[1] - b[1] ELSE a[2] - b[2]

END_MARKER_KEY == <<0, 0>>
\* The sentinel strings "__start" and "__end" equal no crdtKey string; the
\* pairs that stand for them equal no crdtKey pair (an author is a u8).
START_SENTINEL == <<-1, 0>>
END_SENTINEL == <<-2, 0>>

\* The positions 1..n in order.
Indices(n) == [i \in 1..n |-> i]

\* The positions at which a member of seq comes for the first time: an
\* insertion-ordered Set, and the keys of a Map, keep that order.
FirstAt(seq) ==
    SelectSeq(Indices(Len(seq)), LAMBDA i : \A j \in 1..(i - 1) : seq[j] # seq[i])

\* The position at which x comes in seq for the last time.
LastAt(seq, x) ==
    CHOOSE i \in 1..Len(seq) : seq[i] = x /\ \A j \in (i + 1)..Len(seq) : seq[j] # x

PickAt(seq, at) == [n \in 1..Len(at) |-> seq[at[n]]]

\* The Set that add(x) over seq in order leaves.
Distinct(seq) == PickAt(seq, FirstAt(seq))

Column(pairs, c) == [e \in 1..Len(pairs) |-> pairs[e][c]]

SeqFilterOut(seq, drop) == SelectSeq(seq, LAMBDA x : x \notin drop)

\* Array.prototype.sort (stable) of items by compareCrdtId on itemId.
RECURSIVE InsertById(_, _)
InsertById(sorted, item) ==
    IF sorted = <<>> THEN <<item>>
    ELSE IF compareCrdtId(item.itemId, sorted[Len(sorted)].itemId) >= 0
         THEN Append(sorted, item)
         ELSE Append(InsertById(SubSeq(sorted, 1, Len(sorted) - 1), item),
                     sorted[Len(sorted)])

\* SortById as it would be if the ready items were not sorted (line 765).
SortById_Unsorted(items) == items

RECURSIVE SortById(_)
SortById(items) ==
    IF items = <<>> THEN <<>>
    ELSE InsertById(SortById(SubSeq(items, 1, Len(items) - 1)), items[Len(items)])

ItemKeys(items) == [i \in 1..Len(items) |-> crdtKey(items[i].itemId)]

\* The Map that set(keys[i], items[i]) over the items in order leaves: a key
\* stands where it first came and holds the item that came last.
DictOf(items, keys, first) ==
    [n \in 1..Len(first) |-> <<keys[first[n]], items[LastAt(keys, keys[first[n]])]>>]

\* Lines 710-713, and lines 804-807.
BuildItemDict(items) ==
    Let(ItemKeys(items), LAMBDA keys : DictOf(items, keys, FirstAt(keys)))

sideId(itemDict, item, side) ==
    LET id == IF side = "left" THEN item.leftId ELSE item.rightId
        key == crdtKey(id)
    IN  IF key = END_MARKER_KEY \/ ~MapHas(itemDict, key)
        THEN (IF side = "left" THEN START_SENTINEL ELSE END_SENTINEL)
        ELSE key

\* GraphCall as it would be if line 738 were missing and the right
\* neighbour did not have to come after the item.
GraphCall_NoRight(itemDict, item, e) ==
    <<crdtKey(item.itemId), sideId(itemDict, item, "left")>>

\* The calls getOrCreate(k).add(d) of lines 733-739 as pairs <<k, d>>: the
\* odd ones are those of line 737, the even ones those of line 738.
GraphCall(itemDict, item, e) ==
    IF e % 2 = 1
    THEN <<crdtKey(item.itemId), sideId(itemDict, item, "left")>>
    ELSE <<sideId(itemDict, item, "right"), crdtKey(item.itemId)>>

GraphCalls(itemDict) ==
    [e \in 1..(2 * Len(itemDict)) |->
        GraphCall(itemDict, itemDict[(e + 1) \div 2][2], e)]

\* The Set the calls leave under the key k.
DepsOf(calls, k) == Distinct(Column(SelectSeq(calls, LAMBDA c : c[1] = k), 2))

GraphOf(calls, keys) == [n \in 1..Len(keys) |-> <<keys[n], DepsOf(calls, keys[n])>>]

\* The Map the loop of lines 733-739 leaves: the keys in the order they
\* were created, each with its dependencies in the order they were added.
BuildGraph(itemDict) ==
    Let(GraphCalls(itemDict), LAMBDA calls : GraphOf(calls, Distinct(Column(calls, 1))))

RECURSIVE DepsInOrder(_, _)
\* The dependencies in the order lines 743-745 meet them, from entry i on.
DepsInOrder(graph, i) ==
    IF i > Len(graph) THEN <<>> ELSE graph[i][2] \o DepsInOrder(graph, i + 1)

\* Lines 742-745.
AllDeps(graph) == Distinct(DepsInOrder(graph, 1))

Sources(deps) == [n \in 1..Len(deps) |-> <<deps[n], <<>>>>]

\* Lines 746-748: every dependency that is no key yet becomes a key with no
\* dependencies.
FillSources(graph, allDeps) ==
    graph \o Sources(SelectSeq(allDeps, LAMBDA dep : ~MapHas(graph, dep)))

\* Lines 753-756.
ReadyKeys(graph) == Column(SelectSeq(graph, LAMBDA entry : Len(entry[2]) = 0), 1)

ItemsOf(keys, itemDict) == [n \in 1..Len(keys) |-> MapGet(itemDict, keys[n])]

\* Lines 762-764.
ReadyItems(ready, itemDict) ==
    ItemsOf(SelectSeq(ready, LAMBDA k : MapHas(itemDict, k)), itemDict)

WithoutDeps(graph, readySet) ==
    [n \in 1..Len(graph) |-> <<graph[n][1], SeqFilterOut(graph[n][2], readySet)>>]

\* Lines 772-780: drop the ready keys from the graph and from every set.
RemoveReady(graph, readySet) ==
    WithoutDeps(SelectSeq(graph, LAMBDA entry : entry[1] \notin readySet), readySet)

Range(seq) == {seq[i] : i \in 1..Len(seq)}

\* Kahn's algorithm (lines 751-781): one round per call.
ItemIds(items) == [i \in 1..Len(items) |-> items[i].itemId]

\* SortEnds as it would be without the break of line 759.
SortEnds_OnlyAtEnd(ready) == ready = <<END_SENTINEL>>

\* Lines 758-759: the loop is left when nothing, or the end sentinel alone,
\* is ready.
SortEnds(ready) == ready \in {<<>>, <<END_SENTINEL>>}

RECURSIVE KahnLoop(_, _, _)
KahnLoop(graph, itemDict, result) ==
    IF SortEnds(ReadyKeys(graph)) THEN result
    ELSE KahnLoop(RemoveReady(graph, Range(ReadyKeys(graph))), itemDict,
                  result \o ItemIds(SortById(ReadyItems(ReadyKeys(graph), itemDict))))

\* Lines 730-781 on a non-empty itemDict.
SortDict(itemDict, graph) ==
    KahnLoop(FillSources(graph, AllDeps(graph)), itemDict, <<>>)

ToposortDict(itemDict) ==
    IF Len(itemDict) = 0 THEN <<>>
    ELSE SortDict(itemDict, BuildGraph(itemDict))

toposortItems(items) == ToposortDict(BuildItemDict(items))

\* --- CRDT text resolution ---

\* Counted as it would be if a deleted item were not passed over.
Counted_KeepsDeleted(itemMap, id) ==
    /\ MapHas(itemMap, crdtKey(id))
    /\ ~MapGet(itemMap, crdtKey(id)).value.isNum

\* Lines 814-817: the pass goes on with the item of id: itemMap holds it, it
\* is not deleted and its value is no format code.
Counted(itemMap, id) ==
    /\ MapHas(itemMap, crdtKey(id))
    /\ MapGet(itemMap, crdtKey(id)).deletedLength = 0
    /\ ~MapGet(itemMap, crdtKey(id)).value.isNum

IdKeys(ids) == [n \in 1..Len(ids) |-> crdtKey(ids[n])]

\* The values the pass pushes, one for each id it goes on with.
ValuesOf(ids, itemMap) ==
    [n \in 1..Len(ids) |-> MapGet(itemMap, crdtKey(ids[n])).value.s]

RECURSIVE Joined(_, _)
\* The first n values joined; its length is the offset after them.
Joined(values, n) == IF n = 0 THEN <<>> ELSE Joined(values, n - 1) \o values[n]

OffsetsOf(values) == [n \in 1..Len(values) |-> Len(Joined(values, n - 1))]

\* The single pass of lines 813-823 over the ids it goes on with: the joined
\* text, and the Map that charPositions.set(crdtKey(id), offset) leaves.
ResolvePass(keys, values) ==
    [text |-> Joined(values, Len(values)),
     charPositions |-> DictOf(OffsetsOf(values), keys, FirstAt(keys))]

\* StylesLoop as it would be if line 834 recorded the style at the offset
\* of the character itself.
RECURSIVE StylesLoop_AtOffset(_, _, _)
StylesLoop_AtOffset(formats, charPositions, paragraphStyles) ==
    IF formats = <<>> THEN paragraphStyles
    ELSE LET fmt == Head(formats)
             key == crdtKey(fmt.charId)
         IN  StylesLoop_AtOffset(
                 Tail(formats), charPositions,
                 IF fmt.charId[1] = 0 /\ fmt.charId[2] = 0
                 THEN MapSet(paragraphStyles, 0, fmt.formatCode)
                 ELSE IF MapHas(charPositions, key)
                      THEN MapSet(paragraphStyles, MapGet(charPositions, key),
                                  fmt.formatCode)
                      ELSE paragraphStyles)

\* The loop of lines 827-837 over the formats.
RECURSIVE StylesLoop(_, _, _)
StylesLoop(formats, charPositions, paragraphStyles) ==
    IF formats = <<>> THEN paragraphStyles
    ELSE LET fmt == Head(formats)
             key == crdtKey(fmt.charId)
         IN  StylesLoop(
                 Tail(formats), charPositions,
                 IF fmt.charId[1] = 0 /\ fmt.charId[2] = 0
                 THEN MapSet(paragraphStyles, 0, fmt.formatCode)
                 ELSE IF MapHas(charPositions, key)
                      THEN MapSet(paragraphStyles, MapGet(charPositions, key) + 1,
                                  fmt.formatCode)
                      ELSE paragraphStyles)

ResolvedText(res, formats) ==
    [text |-> res.text,
     paragraphStyles |-> StylesLoop(formats, res.charPositions, <<>>),
     charPositions |-> res.charPositions]

resolveTextContent(items, formats) ==
    Let(expandTextItems(items), LAMBDA expanded :
    Let(BuildItemDict(expanded), LAMBDA itemMap :
    Let(SelectSeq(toposortItems(expanded), LAMBDA id : Counted(itemMap, id)),
        LAMBDA ids :
    ResolvedText(ResolvePass(IdKeys(ids), ValuesOf(ids, itemMap)),
                 formats))))

\* text.trim() is empty: every character is white space.
WhiteSpace == {9, 10, 11, 12, 13, 32}
IsBlank(text) == \A i \in 1..Len(text) : text[i] \in WhiteSpace

\* Lines 446-449: what the text content sub-block leaves in the arrays;
\* nested records that parseTextContent threw and the catch swallowed it.
WithTextContent(st, c) ==
    [st EXCEPT !.textItems = c.items, !.textFormats = c.formats,
               !.nested = @ \/ ~c.ok]

\* Lines 453-456 on a sub-block of at least 16 bytes.
WithPosition(st, sub) ==
    Let(readF64(sub), LAMBDA x :
    Let(readF64(x.r), LAMBDA y : [st EXCEPT !.posX = x.val, !.posY = y.val]))

RECURSIVE RootTextLoop(_, _)
RootTextLoop(r, st) ==
    IF remaining(r) <= 0 THEN [ok |-> TRUE, st |-> st]
    ELSE Bind(readTag(r), LAMBDA tag :
         IF tag.index = 1 /\ tag.type = TAG_ID
         THEN Bind(readCrdtId(tag.r), LAMBDA id : RootTextLoop(id.r, st))
         ELSE IF tag.index \in {2, 3} /\ tag.type = TAG_LENGTH4
              THEN Bind(SubBlock(tag.r), LAMBDA sb :
                   IF tag.index = 2
                   THEN RootTextLoop(
                            sb.after,
                            WithTextContent(st, parseTextContent(sb.sub, st.textItems,
                                                                 st.textFormats)))
                   ELSE IF remaining(sb.sub) >= 16
                        THEN RootTextLoop(sb.after, WithPosition(st, sb.sub))
                        ELSE RootTextLoop(sb.after, st))
         ELSE IF tag.index = 4 /\ tag.type = TAG_BYTE4
              THEN Bind(readF32(tag.r), LAMBDA w :
                        RootTextLoop(w.r, [st EXCEPT !.width = w.val]))
         ELSE Bind(skipTagValue(tag.r, tag), LAMBDA s : RootTextLoop(s.r, st)))

\* Lines 465-471 on the state the loop ended in.
RootTextResult(st, resolved) ==
    IF IsBlank(resolved.text)
    THEN [ok |-> TRUE, nested |-> st.nested, val |-> None]
    ELSE [ok |-> TRUE, nested |-> st.nested,
          val |-> Some([textBlock |->
                            [text |-> resolved.text, posX |-> st.posX,
                             posY |-> st.posY, width |-> st.width,
                             paragraphStyles |-> resolved.paragraphStyles],
                        charPositions |-> resolved.charPositions])]

parseRootTextBlock(reader) ==
    Bind(RootTextLoop(reader, [posX |-> -576, posY |-> 234, width |-> 1152,
                               textItems |-> <<>>, textFormats |-> <<>>,
                               nested |-> FALSE]),
         LAMBDA l :
         RootTextResult(l.st, resolveTextContent(l.st.textItems, l.st.textFormats)))

\* --- Geometry ---

\* The walk of lines 374-390 from currentKey on.
\* The result of a walk that has first passed the node key: trail lists the
\* nodes whose loop body has run, in order.
Through(key, walk) == [walk EXCEPT !.trail = <<key>> \o @]

RECURSIVE OffsetWalk_ChecksLate(_, _, _, _, _, _)
\* OffsetWalk as it would be if the visited set were tested after the
\* node's anchor origin has been added.
OffsetWalk_ChecksLate(currentKey, visited, xOffset, yOffset, entryByTreeId, nodes) ==
    IF currentKey = ROOT_KEY
    THEN [x |-> xOffset, y |-> yOffset, trail |-> <<>>]
    ELSE LET hasNd == MapHas(nodes, currentKey)
             nd == MapGet(nodes, currentKey)
             x1 == IF hasNd /\ nd.anchorOriginX # None
                   THEN xOffset + nd.anchorOriginX[1] ELSE xOffset
             y1 == IF hasNd /\ nd.anchorOriginY # None
                   THEN yOffset + nd.anchorOriginY[1] ELSE yOffset
         IN  IF currentKey \in visited \/ ~MapHas(entryByTreeId, currentKey)
             THEN [x |-> x1, y |-> y1, trail |-> <<currentKey>>]
             ELSE Through(currentKey,
                          OffsetWalk_ChecksLate(
                              crdtKey(MapGet(entryByTreeId, currentKey).parentId),
                              visited \cup {currentKey}, x1, y1, entryByTreeId,
                              nodes))

RECURSIVE OffsetWalk(_, _, _, _, _, _)
\* Lines 374-390: the loop, one call per test of its condition.
OffsetWalk(currentKey, visited, xOffset, yOffset, entryByTreeId, nodes) ==
    IF currentKey = ROOT_KEY \/ currentKey \in visited
    THEN [x |-> xOffset, y |-> yOffset, trail |-> <<>>]
    ELSE LET hasNd == MapHas(nodes, currentKey)
             nd == MapGet(nodes, currentKey)
             x1 == IF hasNd /\ nd.anchorOriginX # None
                   THEN xOffset + nd.anchorOriginX[1] ELSE xOffset
             y1 == IF hasNd /\ nd.anchorOriginY # None
                   THEN yOffset + nd.anchorOriginY[1] ELSE yOffset
         IN  IF ~MapHas(entryByTreeId, currentKey)
             THEN [x |-> x1, y |-> y1, trail |-> <<currentKey>>]
             ELSE Through(currentKey,
                          OffsetWalk(crdtKey(MapGet(entryByTreeId, currentKey).parentId),
                                     visited \cup {currentKey}, x1, y1, entryByTreeId,
                                     nodes))

\* computeOffsetForNode as it would be if the walk stopped at the first node.
computeOffsetForNode_NoWalk(nodeTreeId, entryByTreeId, nodes) ==
    OffsetWalk(crdtKey(nodeTreeId), {}, 0, 0, <<>>, nodes)

computeOffsetForNode(nodeTreeId, entryByTreeId, nodes) ==
    OffsetWalk(crdtKey(nodeTreeId), {}, 0, 0, entryByTreeId, nodes)

\* --- Text anchor Y positioning ---

\* RM_PX_PER_PT = 1404 / 514.  A line height is lineHeightPt * 1404 / 514 px;
\* the model holds every vertical quantity of the compositor in units of
\* 1/514 px, in which a line height is the integer lineHeightPt * 1404.
RM_WIDTH_PX == 1404
RM_WIDTH_PT == 514
SubPx(px) == px * RM_WIDTH_PT

STYLE_PLAIN == 1
STYLE_HEADING == 2
STYLE_BOLD == 3

\* getLineHeightPx as it would be if every style had the plain line height.
getLineHeightPx_Flat(style) == 23 * RM_WIDTH_PX

\* getLineHeightPx as it would be if bold paragraphs had a height of their
\* own, between the plain and the heading one.
getLineHeightPx_ThreeHeights(style) ==
    CASE style = STYLE_HEADING -> 26 * RM_WIDTH_PX
      [] style = STYLE_BOLD -> 24 * RM_WIDTH_PX
      [] OTHER -> 23 * RM_WIDTH_PX

getLineHeightPx(style) ==
    CASE style = STYLE_HEADING -> 26 * RM_WIDTH_PX
      [] style = STYLE_BOLD -> 23 * RM_WIDTH_PX
      [] OTHER -> 23 * RM_WIDTH_PX

\* text.split("\n"): the lengths of the pieces suffice for the offset.
RECURSIVE SplitLengths(_, _)
SplitLengths(text, cur) ==
    IF text = <<>> THEN <<cur>>
    ELSE IF Head(text) = 10 THEN <<cur>> \o SplitLengths(Tail(text), 0)
    ELSE SplitLengths(Tail(text), cur + 1)

\* The loop of lines 417-422 from paragraph i on.
RECURSIVE AnchorYLoop(_, _, _, _, _, _)
AnchorYLoop(tb, paragraphs, anchorCharOffset, i, yOffset, charOff) ==
    IF i > Len(paragraphs) THEN yOffset
    ELSE LET style == IF MapHas(tb.paragraphStyles, charOff)
                      THEN MapGet(tb.paragraphStyles, charOff) ELSE STYLE_PLAIN
             y1 == yOffset + getLineHeightPx(style)
             c1 == charOff + paragraphs[i] + 1
         IN  IF c1 > anchorCharOffset THEN y1
             ELSE AnchorYLoop(tb, paragraphs, anchorCharOffset, i + 1, y1, c1)

\* computeAnchorYOffset as it would be if an anchor at offset 0 got the base
\* Y of the text block alone.
computeAnchorYOffset_BaseAtZero(tb, anchorCharOffset) ==
    IF anchorCharOffset = 0 THEN SubPx(tb.posY)
    ELSE AnchorYLoop(tb, SplitLengths(tb.text, 0), anchorCharOffset, 1,
                     SubPx(tb.posY), 0)

computeAnchorYOffset(tb, anchorCharOffset) ==
    AnchorYLoop(tb, SplitLengths(tb.text, 0), anchorCharOffset, 1, SubPx(tb.posY), 0)

\* --- Main parser ---

RECURSIVE BuildEntryMap(_, _)
BuildEntryMap(entries, m) ==
    IF entries = <<>> THEN m
    ELSE BuildEntryMap(Tail(entries), MapSet(m, crdtKey(Head(entries).treeId), Head(entries)))

\* The walk of lines 939-954 from walkKey on: the text-anchor Y offset.
\* The anchor walk's result: anchorY as lines 936-955 leave it, and the
\* nodes whose loop body has run.
AnchorAt(anchorY, key) == [anchorY |-> anchorY, trail |-> <<key>>]
NoAnchor == [anchorY |-> 0, trail |-> <<>>]

RECURSIVE AnchorWalk_SkipsUnresolved(_, _, _, _, _)
\* AnchorWalk as it would be if a node whose anchorId is not in the
\* char-offset map were passed over and the walk went on to its parent.
AnchorWalk_SkipsUnresolved(walkKey, walked, entryByTreeId, textBlock, charPositions) ==
    IF walkKey = ROOT_KEY \/ walkKey \in walked THEN NoAnchor
    ELSE LET hasNd == MapHas(treeNodeMap, walkKey)
             nd == MapGet(treeNodeMap, walkKey)
         IN  IF hasNd /\ nd.anchorId # None
                /\ MapHas(charPositions, crdtKey(nd.anchorId))
             THEN AnchorAt(computeAnchorYOffset(
                               textBlock,
                               MapGet(charPositions, crdtKey(nd.anchorId))),
                           walkKey)
             ELSE IF ~MapHas(entryByTreeId, walkKey) THEN AnchorAt(0, walkKey)
             ELSE Through(walkKey,
                          AnchorWalk_SkipsUnresolved(
                              crdtKey(MapGet(entryByTreeId, walkKey).parentId),
                              walked \cup {walkKey}, entryByTreeId, textBlock,
                              charPositions))

RECURSIVE AnchorWalk(_, _, _, _, _)
\* Lines 939-954: the loop, one call per test of its condition.
AnchorWalk(walkKey, walked, entryByTreeId, textBlock, charPositions) ==
    IF walkKey = ROOT_KEY \/ walkKey \in walked THEN NoAnchor
    ELSE LET hasNd == MapHas(treeNodeMap, walkKey)
             nd == MapGet(treeNodeMap, walkKey)
         IN  IF hasNd /\ nd.anchorId # None
             THEN (IF MapHas(charPositions, crdtKey(nd.anchorId))
                   THEN AnchorAt(computeAnchorYOffset(
                                     textBlock,
                                     MapGet(charPositions, crdtKey(nd.anchorId))),
                                 walkKey)
                   ELSE AnchorAt(0, walkKey))
             ELSE IF ~MapHas(entryByTreeId, walkKey) THEN AnchorAt(0, walkKey)
             ELSE Through(walkKey,
                          AnchorWalk(crdtKey(MapGet(entryByTreeId, walkKey).parentId),
                                     walked \cup {walkKey}, entryByTreeId, textBlock,
                                     charPositions))

\* Lines 957-958: the offsets of one stroke (vertical ones in 1/514 px).
TotalOffsets(treeWalk, anchorWalk) ==
    [treeOffset |-> [x |-> treeWalk.x, y |-> treeWalk.y],
     anchorY |-> anchorWalk.anchorY,
     totalX |-> treeWalk.x, totalY |-> SubPx(treeWalk.y) + anchorWalk.anchorY,
     treeTrail |-> treeWalk.trail, anchorTrail |-> anchorWalk.trail]

\* Lines 933-955 for one line item, given the map of lines 920-923.
StrokeOffsetsIn(parentId, entryByTreeId) ==
    TotalOffsets(computeOffsetForNode(parentId, entryByTreeId, treeNodeMap),
                 IF textResult # None
                 THEN AnchorWalk(crdtKey(parentId), {}, entryByTreeId,
                                 textResult[1].textBlock, textResult[1].charPositions)
                 ELSE NoAnchor)

StrokeOffsets(parentId) ==
    StrokeOffsetsIn(parentId, BuildEntryMap(sceneTreeEntries, <<>>))

\* MovePoints as it would be if the point objects outlived a call, so that
\* a later call moved again the points an earlier call had moved in place.
MovePoints_Reapplied(points, totalX, totalY) ==
    [i \in 1..Len(points) |->
        [points[i] EXCEPT !.x = @ + call * totalX, !.y = SubPx(@) + call * totalY]]

\* Lines 959-964: the points moved by the total offset, when it is not
\* (0, 0); totalY is in 1/514 px, and so is the y of a point that was moved.
\* The points of a stroke that was not moved are left as they were decoded.
MovePoints(points, totalX, totalY) ==
    IF totalX # 0 \/ totalY # 0
    THEN [i \in 1..Len(points) |->
             [points[i] EXCEPT !.x = @ + totalX, !.y = SubPx(@) + totalY]]
    ELSE points

TopReader == [off |-> 0, len |-> Len(data), pos |-> pos]

\* MinFileSize as it would be if line 860 asked for the header only.
MinFileSize_HeaderOnly == HEADER_LENGTH

\* HEADER_LENGTH + 8, the smallest buffer parseRmFile accepts (line 860).
MinFileSize == HEADER_LENGTH + 8

\* parseRmFile up to the block loop: lines 849-866.
CheckHeader ==
    /\ pc = "start"
    /\ IF remaining([off |-> 0, len |-> Len(data), pos |-> 0]) < MinFileSize
       THEN /\ pc' = "thrown"
            /\ pos' = 0
       ELSE /\ pc' = "scan"
            /\ pos' = HEADER_LENGTH
    /\ UNCHANGED <<data, scene, call, blockCount, lineItems, sceneTreeEntries,
                   treeNodeMap, textResult, strokes, applied, page, prevPage,
                   blocks, rt>>

\* The accumulators of the scan as a block finds them.  ok = FALSE is an
\* exception that leaves the dispatch branch (the slice is outside the inner
\* try), threw an exception the inner catch of the branch swallowed, nested
\* an exception caught inside the RootText decoder.
Accumulators ==
    [lineItems |-> lineItems, sceneTreeEntries |-> sceneTreeEntries,
     treeNodeMap |-> treeNodeMap, textResult |-> textResult,
     ok |-> TRUE, threw |-> FALSE, nested |-> FALSE]

\* The four dispatch branches of lines 883-910.
\* DispatchLineItem as it would be if line 887 did not ask for a point.
DispatchLineItem_KeepsEmpty(acc, reader, contentStart, blockLen) ==
    BindOr(slice(reader, contentStart, blockLen), [acc EXCEPT !.ok = FALSE],
           LAMBDA contentReader :
    BindOr(parseLineItemBlock(contentReader.r), [acc EXCEPT !.threw = TRUE],
           LAMBDA result :
           IF result.val # None
           THEN [acc EXCEPT !.lineItems = Append(@, result.val[1])]
           ELSE acc))

DispatchLineItem(acc, reader, contentStart, blockLen) ==
    BindOr(slice(reader, contentStart, blockLen), [acc EXCEPT !.ok = FALSE],
           LAMBDA contentReader :
    BindOr(parseLineItemBlock(contentReader.r), [acc EXCEPT !.threw = TRUE],
           LAMBDA result :
           IF result.val # None /\ Len(result.val[1].stroke.points) > 0
           THEN [acc EXCEPT !.lineItems = Append(@, result.val[1])]
           ELSE acc))

DispatchSceneTree(acc, reader, contentStart, blockLen) ==
    BindOr(slice(reader, contentStart, blockLen), [acc EXCEPT !.ok = FALSE],
           LAMBDA contentReader :
    BindOr(parseSceneTreeBlock(contentReader.r), [acc EXCEPT !.threw = TRUE],
           LAMBDA entry :
           IF entry.val # None
           THEN [acc EXCEPT !.sceneTreeEntries = Append(@, entry.val[1])]
           ELSE acc))

DispatchTreeNode(acc, reader, contentStart, blockLen) ==
    BindOr(slice(reader, contentStart, blockLen), [acc EXCEPT !.ok = FALSE],
           LAMBDA contentReader :
    BindOr(parseTreeNodeBlock(contentReader.r), [acc EXCEPT !.threw = TRUE],
           LAMBDA node :
           IF node.val # None
           THEN [acc EXCEPT !.treeNodeMap =
                     MapSet(@, crdtKey(node.val[1].nodeId), node.val[1])]
           ELSE acc))

\* DispatchRootText as it would be if the assignment of line 908 happened
\* before the decoder's exception reached the catch.
\* DispatchRootText as it would be if a block whose text is blank left the
\* text of an earlier block in place.
DispatchRootText_KeepsOnBlank(acc, reader, contentStart, blockLen) ==
    BindOr(slice(reader, contentStart, blockLen), [acc EXCEPT !.ok = FALSE],
           LAMBDA contentReader :
    BindOr(parseRootTextBlock(contentReader.r), [acc EXCEPT !.threw = TRUE],
           LAMBDA t : [acc EXCEPT !.textResult = IF t.val = None THEN @ ELSE t.val,
                                  !.nested = t.nested]))

DispatchRootText_ClearsOnThrow(acc, reader, contentStart, blockLen) ==
    BindOr(slice(reader, contentStart, blockLen), [acc EXCEPT !.ok = FALSE],
           LAMBDA contentReader :
    BindOr(parseRootTextBlock(contentReader.r),
           [acc EXCEPT !.threw = TRUE, !.textResult = None],
           LAMBDA t : [acc EXCEPT !.textResult = t.val, !.nested = t.nested]))

DispatchRootText(acc, reader, contentStart, blockLen) ==
    BindOr(slice(reader, contentStart, blockLen), [acc EXCEPT !.ok = FALSE],
           LAMBDA contentReader :
    BindOr(parseRootTextBlock(contentReader.r), [acc EXCEPT !.threw = TRUE],
           LAMBDA t : [acc EXCEPT !.textResult = t.val, !.nested = t.nested]))

Dispatch(blockType, blockLen, reader, contentStart) ==
    IF blockType = BLOCK_LINE_ITEM /\ blockLen > 0
    THEN DispatchLineItem(Accumulators, reader, contentStart, blockLen)
    ELSE IF blockType = BLOCK_SCENE_TREE /\ blockLen > 0
    THEN DispatchSceneTree(Accumulators, reader, contentStart, blockLen)
    ELSE IF blockType = BLOCK_TREE_NODE /\ blockLen > 0
    THEN DispatchTreeNode(Accumulators, reader, contentStart, blockLen)
    ELSE IF blockType = BLOCK_ROOT_TEXT /\ blockLen > 0
    THEN DispatchRootText(Accumulators, reader, contentStart, blockLen)
    ELSE Accumulators

\* The cursor as it would be if line 912 were missing and the cursor stayed
\* where the header left it.
\* AfterDispatch as it would be if the cursor were put back on the header
\* of the block just dispatched.
AfterDispatch_BackToHeader(contentStart, contentEnd) == contentStart - 8

AfterDispatch_NoSeek(contentStart, contentEnd) == contentStart

\* reader.seek(contentEnd), line 912: the cursor after a dispatched block.
AfterDispatch(contentStart, contentEnd) == contentEnd

\* The block header as it would be read if the type were taken from the
\* currentVersion byte and the last byte were left unused.
ReadBlockHeader_TypeFromVersion(reader) ==
    Bind(readU32(reader), LAMBDA blockLen :
    Bind(readU8(blockLen.r), LAMBDA reserved :
    Bind(readU8(reserved.r), LAMBDA minV :
    Bind(readU8(minV.r), LAMBDA curV :
    Bind(readU8(curV.r), LAMBDA blockType :
    [ok |-> TRUE, at |-> tell(reader), blockLen |-> blockLen.val,
     blockType |-> curV.val, r |-> blockType.r,
     contentStart |-> tell(blockType.r),
     contentEnd |-> tell(blockType.r) + blockLen.val])))))

\* Lines 869-876: the block header.
ReadBlockHeader(reader) ==
    Bind(readU32(reader), LAMBDA blockLen :
    Bind(readU8(blockLen.r), LAMBDA reserved :
    Bind(readU8(reserved.r), LAMBDA minV :
    Bind(readU8(minV.r), LAMBDA curV :
    Bind(readU8(curV.r), LAMBDA blockType :
    [ok |-> TRUE, at |-> tell(reader), blockLen |-> blockLen.val,
     blockType |-> blockType.val, r |-> blockType.r,
     contentStart |-> tell(blockType.r),
     contentEnd |-> tell(blockType.r) + blockLen.val])))))

\* The entry the log of block headers gets for header h.
LogEntry(h, outcome, nested, changed) ==
    [at |-> h.at, blockLen |-> h.blockLen, blockType |-> h.blockType,
     contentStart |-> h.contentStart, contentEnd |-> h.contentEnd,
     nested |-> nested, changed |-> changed, outcome |-> outcome]

\* The loop is left (its test fails, or a break): nothing but the cursor moves.
Stop(p, log) ==
    [stop |-> TRUE, pos |-> p, blockCount |-> blockCount, acc |-> Accumulators,
     log |-> log]

\* Lines 912-913 after the dispatch d of the block of header h; an exception
\* that left the branch reaches the catch of line 914.
Dispatched(h, d) ==
    IF ~d.ok THEN Stop(h.contentStart, <<LogEntry(h, "aborted", FALSE, FALSE)>>)
    ELSE [stop |-> FALSE,
          pos |-> AfterDispatch(h.contentStart, h.contentEnd),
          blockCount |-> blockCount + 1,
          acc |-> d,
          log |-> <<LogEntry(h, IF d.threw THEN "threw" ELSE "returned", d.nested,
                             \/ d.lineItems # lineItems
                             \/ d.sceneTreeEntries # sceneTreeEntries
                             \/ d.treeNodeMap # treeNodeMap
                             \/ d.textResult # textResult)>>]

\* AfterHeader as it would be if a block reaching past the buffer made the
\* scan give up what it had collected.
AfterHeader_TruncatedDiscards(h) ==
    IF h.contentEnd > Len(data)
    THEN [Stop(h.contentStart, <<LogEntry(h, "beyond", FALSE, FALSE)>>)
             EXCEPT !.acc = [Accumulators EXCEPT !.lineItems = <<>>,
                                                 !.textResult = None]]
    ELSE Dispatched(h, Dispatch(h.blockType, h.blockLen, h.r, h.contentStart))

\* Lines 878-913 on the header h.
AfterHeader(h) ==
    IF h.contentEnd > Len(data)
    THEN Stop(h.contentStart, <<LogEntry(h, "beyond", FALSE, FALSE)>>)
    ELSE Dispatched(h, Dispatch(h.blockType, h.blockLen, h.r, h.contentStart))

\* One iteration of the block loop, lines 867-917 (the loop test included).
ScanStep(reader) ==
    IF remaining(reader) < 8 THEN Stop(tell(reader), <<>>)
    ELSE BindOr(ReadBlockHeader(reader), Stop(tell(reader), <<>>), AfterHeader)

ScanBlock ==
    /\ pc = "scan"
    /\ \E step \in {ScanStep(TopReader)} :
          /\ pc' = IF step.stop THEN "compose" ELSE "scan"
          /\ pos' = step.pos
          /\ blockCount' = step.blockCount
          /\ lineItems' = step.acc.lineItems
          /\ sceneTreeEntries' = step.acc.sceneTreeEntries
          /\ treeNodeMap' = step.acc.treeNodeMap
          /\ textResult' = step.acc.textResult
          /\ blocks' = blocks \o step.log
    /\ UNCHANGED <<data, scene, call, strokes, applied, page, prevPage, rt>>

\* One iteration of the loop over lineItems, lines 932-966.
ApplyOffsets ==
    /\ pc = "compose"
    /\ Len(strokes) < Len(lineItems)
    /\ \E li \in {lineItems[Len(strokes) + 1]} :
       \E o \in {StrokeOffsets(li.parentId)} :
          /\ strokes' = Append(strokes,
                               [li.stroke EXCEPT !.points =
                                    MovePoints(@, o.totalX, o.totalY)])
          /\ applied' = Append(applied, o)
    /\ UNCHANGED <<data, scene, call, pc, pos, blockCount, lineItems,
                   sceneTreeEntries, treeNodeMap, textResult, page, prevPage,
                   blocks, rt>>

\* Lines 975-986: the Page built from the strokes and the text block.
BuildPage(strokeList, textBlock) ==
    [pageId |-> <<>>,
     layers |-> IF Len(strokeList) > 0
                THEN <<[name |-> <<>>, strokes |-> strokeList]>>
                ELSE <<>>,
     textSpans |-> <<>>,
     textBlocks |-> IF textBlock # None THEN <<textBlock[1]>> ELSE <<>>,
     width |-> 1404,
     height |-> 1872]

\* The loop over lineItems has ended and the Page is returned.
ReturnPage ==
    /\ pc = "compose"
    /\ Len(strokes) = Len(lineItems)
    /\ page' = Some(BuildPage(strokes,
                              IF textResult # None
                              THEN Some(textResult[1].textBlock) ELSE None))
    /\ pc' = "done"
    /\ UNCHANGED <<data, scene, call, pos, blockCount, lineItems,
                   sceneTreeEntries, treeNodeMap, textResult, strokes, applied,
                   prevPage, blocks, rt>>

\* The locals of a call of parseRmFile as lines 849-857 and 866 set them.
FreshLocals ==
    [pos |-> 0, blockCount |-> 0, lineItems |-> <<>>, sceneTreeEntries |-> <<>>,
     treeNodeMap |-> <<>>, textResult |-> None, strokes |-> <<>>]

\* The caller decodes the same buffer once more.
CallAgain ==
    /\ pc = "done"
    /\ call < MaxCalls
    /\ call' = call + 1
    /\ prevPage' = page
    /\ page' = None
    /\ pc' = "start"
    /\ pos' = FreshLocals.pos
    /\ blockCount' = FreshLocals.blockCount
    /\ lineItems' = FreshLocals.lineItems
    /\ sceneTreeEntries' = FreshLocals.sceneTreeEntries
    /\ treeNodeMap' = FreshLocals.treeNodeMap
    /\ textResult' = FreshLocals.textResult
    /\ strokes' = FreshLocals.strokes
    /\ applied' = <<>>
    /\ blocks' = <<>>
    /\ UNCHANGED <<data, scene, rt>>

Decode == CheckHeader \/ ScanBlock \/ ApplyOffsets \/ ReturnPage

Next == Decode \/ CallAgain

\* The state in which parseRmFile is called on buffer b encoded from s.
Called(b, s) ==
    /\ data = b
    /\ scene = s
    /\ call = 1
    /\ pc = "start"
    /\ pos = FreshLocals.pos
    /\ blockCount = FreshLocals.blockCount
    /\ lineItems = FreshLocals.lineItems
    /\ sceneTreeEntries = FreshLocals.sceneTreeEntries
    /\ treeNodeMap = FreshLocals.treeNodeMap
    /\ textResult = FreshLocals.textResult
    /\ strokes = FreshLocals.strokes
    /\ applied = <<>>
    /\ page = None
    /\ prevPage = None
    /\ blocks = <<>>
    /\ rt = None

\* --- Input builders: the wire format the decoders read ---

U32LE(n) == <<n % 256, (n \div 256) % 256, (n \div 65536) % 256, n \div 16777216>>

RECURSIVE VarintBytes(_)
VarintBytes(n) == IF n < 128 THEN <<n>> ELSE <<128 + (n % 128)>> \o VarintBytes(n \div 128)

TagBytes(index, type) == VarintBytes(index * 16 + type)
IdBytes(id) == <<id[1]>> \o VarintBytes(id[2])

RECURSIVE Log2(_)
Log2(n) == IF n < 2 THEN 0 ELSE 1 + Log2(n \div 2)

\* The binary32 of the integer n, little-endian.
F32LE(n) ==
    IF n = 0 THEN <<0, 0, 0, 0>>
    ELSE LET a == IF n < 0 THEN 0 - n ELSE n
             e == Log2(a)
             m == (a - Pow2(e)) * Pow2(23 - e)
             ex == e + 127
         IN  <<m % 256, (m \div 256) % 256, (m \div 65536) + 128 * (ex % 2),
               (ex \div 2) + (IF n < 0 THEN 128 ELSE 0)>>

\* The binary64 of the integer n, little-endian.
F64LE(n) ==
    IF n = 0 THEN <<0, 0, 0, 0, 0, 0, 0, 0>>
    ELSE LET a == IF n < 0 THEN 0 - n ELSE n
             e == Log2(a)
             m == (a - Pow2(e)) * Pow2(20 - e)
             ex == e + 1023
         IN  <<0, 0, 0, 0, m % 256, (m \div 256) % 256,
               (m \div 65536) + 16 * (ex % 16),
               (ex \div 16) + (IF n < 0 THEN 128 ELSE 0)>>

FieldId(index, id) == TagBytes(index, TAG_ID) \o IdBytes(id)
FieldU32(index, n) == TagBytes(index, TAG_BYTE4) \o U32LE(n)
FieldF32(index, n) == TagBytes(index, TAG_BYTE4) \o F32LE(n)
FieldSub(index, content) == TagBytes(index, TAG_LENGTH4) \o U32LE(Len(content)) \o content

RECURSIVE Flatten(_)
Flatten(seqs) == IF seqs = <<>> THEN <<>> ELSE Head(seqs) \o Flatten(Tail(seqs))

\* A top-level block: length, reserved, minVersion, currentVersion, type.
BlockBytes(type, content) == U32LE(Len(content)) \o <<0, 1, 1, type>> \o content

\* The 43 header bytes, which the decoder never reads.
HeaderBytes == [i \in 1..HEADER_LENGTH |-> 32]

SceneTreeContent(treeId, nodeId, parentId) ==
    FieldId(1, treeId) \o FieldId(2, nodeId) \o TagBytes(3, TAG_BYTE1) \o <<1>>
    \o FieldSub(4, FieldId(1, parentId))

\* A last-writer-wins sub-block: timestamp, then the value field.
LwwId(index, id) == FieldSub(index, FieldId(1, <<1, 1>>) \o FieldId(2, id))
LwwF32(index, n) == FieldSub(index, FieldId(1, <<1, 1>>) \o FieldF32(2, n))

\* A nullable field: nothing when the value is None.
TreeNodeContent(nodeId, anchorId, originX, originY) ==
    FieldId(1, nodeId)
    \o FieldSub(2, <<1, 65>>)                      \* label: an unread field
    \o (IF anchorId = None THEN <<>> ELSE LwwId(7, anchorId))
    \o (IF originX = None THEN <<>> ELSE LwwF32(10, originX[1]))
    \o (IF originY = None THEN <<>> ELSE LwwF32(13, originY[1]))

PointBytes(p) ==
    F32LE(p.x) \o F32LE(p.y) \o <<p.speed % 256, p.speed \div 256>>
    \o <<p.width % 256, p.width \div 256>> \o <<p.direction, p.pressure>>

LineValueContent(points) ==
    <<ITEM_LINE>> \o FieldU32(1, 15) \o FieldU32(2, 0)
    \o TagBytes(3, TAG_BYTE8) \o F64LE(2) \o FieldU32(4, 0)
    \o FieldSub(5, Flatten([i \in 1..Len(points) |-> PointBytes(points[i])]))
    \o FieldId(6, <<1, 1>>)

LineItemContent(parentId, itemId, deletedLength, points) ==
    FieldId(1, parentId) \o FieldId(2, itemId) \o FieldId(3, <<0, 0>>)
    \o FieldId(4, <<0, 0>>) \o FieldU32(5, deletedLength)
    \o FieldSub(6, LineValueContent(points))

\* The value sub-block of a text item: a string, or a format code.
TextValueBytes(value) ==
    IF value.isNum THEN <<0, 1>> \o FieldU32(2, value.n)
    ELSE VarintBytes(Len(value.s)) \o <<1>> \o value.s

TextItemBytes(item) ==
    FieldSub(0, FieldId(2, item.itemId) \o FieldId(3, item.leftId)
                \o FieldId(4, item.rightId) \o FieldU32(5, item.deletedLength)
                \o FieldSub(6, TextValueBytes(item.value)))

FormatBytes(fmt) ==
    IdBytes(fmt.charId) \o FieldId(1, <<1, 1>>) \o FieldSub(2, <<17, fmt.formatCode>>)

\* The text-content sub-block (field 2 of a RootText block).
TextContent(items, formats) ==
    FieldSub(1, FieldSub(1, VarintBytes(Len(items))
                            \o Flatten([i \in 1..Len(items) |-> TextItemBytes(items[i])])))
    \o FieldSub(2, FieldSub(1, VarintBytes(Len(formats))
                               \o Flatten([i \in 1..Len(formats) |-> FormatBytes(formats[i])])))

\* posXY is None (no field 3) or <<x, y>>.
RootTextContent(items, formats, posXY) ==
    FieldId(1, <<0, 0>>) \o FieldSub(2, TextContent(items, formats))
    \o (IF posXY = None THEN <<>> ELSE FieldSub(3, F64LE(posXY[1]) \o F64LE(posXY[2])))
    \o FieldF32(4, 936)

\* --- Inputs of the block scan ---

\* How many blocks a buffer of the scan specification holds at most.
MaxBlocks == 2

Pt(x, y) == [x |-> x, y |-> y, speed |-> 3, width |-> 4, direction |-> 5, pressure |-> 6]
TextItem(id, left, right, deleted, value) ==
    [itemId |-> id, leftId |-> left, rightId |-> right, deletedLength |-> deleted,
     value |-> value]
GroupA == <<1, 10>>
GroupB == <<1, 11>>

\* The blocks the scan buffers are made of, by name.
ScanCatalogue ==
    [ empty |-> BlockBytes(0, <<>>),
      other |-> BlockBytes(9, <<1, 2, 3>>),
      zeroLine |-> BlockBytes(BLOCK_LINE_ITEM, <<>>),
      tree |-> BlockBytes(BLOCK_SCENE_TREE, SceneTreeContent(GroupB, GroupB, <<0, 0>>)),
      \* field 2 announced, its CrdtId missing: readCrdtId throws EOF
      treeBad |-> BlockBytes(BLOCK_SCENE_TREE,
                             FieldId(1, GroupB) \o TagBytes(2, TAG_ID)),
      \* a Byte8 field with two bytes left: skip(8) runs over the region
      treeOver |-> BlockBytes(BLOCK_SCENE_TREE,
                              SceneTreeContent(GroupA, GroupA, <<0, 0>>)
                              \o TagBytes(9, TAG_BYTE8) \o <<0, 0>>),
      node |-> BlockBytes(BLOCK_TREE_NODE,
                          TreeNodeContent(GroupB, None, Some(10), Some(5))),
      \* a sub-block declared longer than the buffer: slice throws RangeError
      nodeBad |-> BlockBytes(BLOCK_TREE_NODE,
                             FieldId(1, GroupB) \o TagBytes(10, TAG_LENGTH4)
                             \o U32LE(16777215)),
      line |-> BlockBytes(BLOCK_LINE_ITEM,
                          LineItemContent(GroupB, <<1, 20>>, 0, <<Pt(1, 2)>>)),
      \* a point list of no bytes: the stroke decodes with no point
      lineEmpty |-> BlockBytes(BLOCK_LINE_ITEM,
                               LineItemContent(GroupB, <<1, 22>>, 0, <<>>)),
      \* the decoder returns at field 6 and leaves four bytes unread
      lineShort |-> BlockBytes(BLOCK_LINE_ITEM,
                               LineItemContent(<<0, 0>>, <<1, 21>>, 0, <<Pt(7, 8)>>)
                               \o <<1, 2, 3, 4>>),
      \* the value sub-block ends inside its penType field: readU32 throws EOF
      lineBad |-> BlockBytes(BLOCK_LINE_ITEM,
                             FieldId(1, GroupB)
                             \o FieldSub(6, <<ITEM_LINE>> \o TagBytes(1, TAG_BYTE4))),
      text |-> BlockBytes(BLOCK_ROOT_TEXT,
                          RootTextContent(
                              <<TextItem(<<1, 1>>, <<0, 0>>, <<0, 0>>, 0,
                                         Str(<<104, 105>>))>>,
                              <<>>, None)),
      \* after the text content a field 1 is announced and missing: the
      \* RootText decoder itself throws EOF
      textBad |-> BlockBytes(BLOCK_ROOT_TEXT,
                             FieldSub(2, TextContent(
                                 <<TextItem(<<1, 1>>, <<0, 0>>, <<0, 0>>, 0,
                                            Str(<<121, 111>>))>>, <<>>))
                             \o TagBytes(1, TAG_ID)),
      \* inside the text content a sub-block is announced and missing:
      \* parseTextContent throws EOF after the items were pushed
      textNested |-> BlockBytes(BLOCK_ROOT_TEXT,
                                FieldSub(2, TextContent(
                                    <<TextItem(<<1, 1>>, <<0, 0>>, <<0, 0>>, 0,
                                               Str(<<111, 107>>))>>, <<>>)
                                    \o TagBytes(1, TAG_LENGTH4))) ]

ScanNames == DOMAIN ScanCatalogue

\* What follows the last block: nothing, less than a block header, or a header
\* whose declared length reaches past the end of the buffer.
ScanTails ==
    [ none |-> <<>>,
      partial |-> <<1, 2, 3>>,
      beyond |-> U32LE(100) \o <<0, 1, 1, BLOCK_LINE_ITEM>> \o <<31, 1>> ]

ScanBuffer(names, tail) ==
    HeaderBytes \o Flatten([i \in 1..Len(names) |-> ScanCatalogue[names[i]]])
    \o ScanTails[tail]

NameSeqs == UNION {[1..n -> ScanNames] : n \in 0..MaxBlocks}

\* The lengths of the buffers too short or just long enough to decode.
ShortLengths == {0, 1, 42, 43, 44, 50, 51}

InitScan ==
    \/ \E names \in NameSeqs, tail \in DOMAIN ScanTails :
           Called(ScanBuffer(names, tail), [names |-> names, tail |-> tail])
    \/ \E n \in ShortLengths :
           Called(SubSeq(ScanBuffer(<<"empty">>, "none"), 1, n),
                  [names |-> <<>>, tail |-> "cut"])

Init == InitScan

Spec == Init /\ [][Next]_vars
\* --- Inputs of the tree offsets (specification SpecTree) ---

\* How many groups the scene tree of a buffer holds at most.
MaxGroups == 2

GroupId(g) == <<1, 9 + g>>

\* The parent of a group: the root (0), a group, or no SceneTree block (-1).
ParentChoices == -1..MaxGroups
ParentId(q) == IF q = 0 THEN <<0, 0>> ELSE GroupId(q)

\* The anchor origin of a group: no TreeNode block (None), or <<x, y>>.
OriginChoices == {None, <<10, 0>>, <<0, 5>>}

TreeBlocks(parent, g) ==
    IF parent[g] = -1 THEN <<>>
    ELSE BlockBytes(BLOCK_SCENE_TREE,
                    SceneTreeContent(GroupId(g), GroupId(g), ParentId(parent[g])))

NodeBlocks(origin, anchor, g) ==
    IF origin[g] = None /\ anchor[g] = None THEN <<>>
    ELSE BlockBytes(BLOCK_TREE_NODE,
                    TreeNodeContent(GroupId(g), anchor[g],
                                    IF origin[g] = None THEN None ELSE Some(origin[g][1]),
                                    IF origin[g] = None THEN None ELSE Some(origin[g][2])))

\* The SceneTree and TreeNode blocks of n groups.
GroupBlocks(n, parent, origin, anchor) ==
    Flatten([g \in 1..n |-> TreeBlocks(parent, g)])
    \o Flatten([g \in 1..n |-> NodeBlocks(origin, anchor, g)])

\* The LineItem block of a stroke of one point under the group q.
StrokeBlock(q) ==
    BlockBytes(BLOCK_LINE_ITEM, LineItemContent(ParentId(q), <<1, 40>>, 0, <<Pt(1, 2)>>))

InitTree ==
    \E parent \in [1..MaxGroups -> ParentChoices],
       origin \in [1..MaxGroups -> OriginChoices],
       q \in 0..MaxGroups, lineFirst \in BOOLEAN :
        Called(HeaderBytes
               \o (IF lineFirst THEN StrokeBlock(q) ELSE <<>>)
               \o GroupBlocks(MaxGroups, parent, origin, [g \in 1..MaxGroups |-> None])
               \o (IF lineFirst THEN <<>> ELSE StrokeBlock(q)),
               [parent |-> parent, origin |-> origin, strokeParent |-> q,
                lineFirst |-> lineFirst])

SpecTree == InitTree /\ [][Decode]_vars

\* --- Inputs of the text anchors (specification SpecAnchor) ---

\* How many paragraphs the text of a buffer holds at most.
MaxParagraphs == 2

\* The lengths a paragraph takes, and the text of the worked example: a
\* first paragraph of 11 characters and a second of 3.
ParLens == {0, 2}
ExampleShape == <<11, 3>>
Shapes == {ExampleShape} \cup UNION {[1..n -> ParLens] : n \in 1..MaxParagraphs}

RECURSIVE ParStart(_, _)
\* The offset at which paragraph p of the shape starts.
ParStart(shape, p) == IF p = 1 THEN 0 ELSE ParStart(shape, p - 1) + shape[p - 1] + 1

TextLen(shape) == ParStart(shape, Len(shape)) + shape[Len(shape)]

\* The character at offset i: a newline at the end of every paragraph but
\* the last, a letter elsewhere.
ShapeChar(shape, i) ==
    IF \E p \in 2..Len(shape) : ParStart(shape, p) = i + 1 THEN 10 ELSE 97 + (i % 26)

ShapeText(shape) == [i \in 1..TextLen(shape) |-> ShapeChar(shape, i - 1)]

\* The one text item holds the whole text; its characters get the ids that
\* follow its own.
TextItemId == <<1, 16>>
CharId(k) == <<TextItemId[1], TextItemId[2] + k>>

\* The format entries: style[p] = 0 records nothing for paragraph p; the
\* style of the first paragraph hangs on (0,0), that of a later one on the
\* newline before it.
ShapeFormats(shape, style) ==
    Flatten([p \in 1..Len(shape) |->
                IF style[p] = 0 THEN <<>>
                ELSE <<[charId |-> IF p = 1 THEN <<0, 0>>
                                   ELSE CharId(ParStart(shape, p) - 1),
                        formatCode |-> style[p]]>>])

StyleChoices == {0, STYLE_PLAIN, STYLE_HEADING, STYLE_BOLD}

\* Where the anchor sits: on the stroke's own group, or on its parent.
AnchorBlocks(k, onParent) ==
    IF onParent
    THEN GroupBlocks(2, <<0, 1>>, <<None, None>>, <<CharId(k), None>>)
    ELSE GroupBlocks(2, <<0, 1>>, <<None, None>>, <<None, CharId(k)>>)

InitAnchor ==
    \E shape \in Shapes :
    \E style \in [1..Len(shape) -> StyleChoices],
       k \in 0..(TextLen(shape) - 1),
       posXY \in {None, <<3, 100>>}, onParent \in BOOLEAN :
        Called(HeaderBytes
               \o BlockBytes(BLOCK_ROOT_TEXT,
                             RootTextContent(
                                 <<TextItem(TextItemId, <<0, 0>>, <<0, 0>>, 0,
                                            Str(ShapeText(shape)))>>,
                                 ShapeFormats(shape, style), posXY))
               \o AnchorBlocks(k, onParent)
               \o StrokeBlock(2),
               [shape |-> shape, style |-> style, k |-> k,
                posY |-> IF posXY = None THEN 234 ELSE posXY[2],
                onParent |-> onParent])

SpecAnchor == InitAnchor /\ [][Decode]_vars

\* --- Inputs of the point lists (specification SpecPoints) ---

\* How many points the point list of a buffer holds at most.
MaxPoints == 2

\* A point as it is encoded: the four bytes of x and of y and the integer
\* fields, with the point it stands for.  The second holds 1.5 and the
\* negative zero, and the largest value of every integer field.
WirePoints ==
    << [xb |-> F32LE(1), yb |-> F32LE(2), pt |-> Pt(1, 2)],
       [xb |-> <<0, 0, 192, 63>>, yb |-> <<0, 0, 0, 128>>,
        pt |-> [x |-> [f32 |-> <<0, 0, 192, 63>>], y |-> [f32 |-> <<0, 0, 0, 128>>],
                speed |-> 65535, width |-> 256, direction |-> 255, pressure |-> 0]],
       [xb |-> F32LE(-3), yb |-> F32LE(0), pt |-> Pt(-3, 0)] >>

\* The points among them whose x and y are integers.
WholePoints == {1, 3}

U16LE(n) == <<n % 256, n \div 256>>

WirePointBytes(w) ==
    w.xb \o w.yb \o U16LE(w.pt.speed) \o U16LE(w.pt.width)
    \o <<w.pt.direction, w.pt.pressure>>

\* The bytes that follow the last whole record of a point list.
TrailingLengths == {0, 1, 13}

\* A point list: the records of the points chosen, and t more bytes.
PointList(choice, t) ==
    Flatten([i \in 1..Len(choice) |-> WirePointBytes(WirePoints[choice[i]])])
    \o [i \in 1..t |-> 7]

\* A LineItem block under GroupA whose value holds the point list.
PointsBlock(list) ==
    BlockBytes(BLOCK_LINE_ITEM,
               FieldId(1, GroupA) \o FieldId(2, <<1, 40>>)
               \o FieldSub(6, <<ITEM_LINE>> \o FieldU32(1, 15) \o FieldSub(5, list)))

\* A stream of one SceneTree, one TreeNode and one LineItem block; the
\* points of a stroke that is moved have whole coordinates.
InitPoints ==
    \E n \in 0..MaxPoints :
    \E choice \in [1..n -> 1..Len(WirePoints)],
       t \in TrailingLengths, origin \in {None, <<0, 0>>, <<10, 5>>} :
        /\ origin \notin {None, <<0, 0>>} => \A i \in 1..n : choice[i] \in WholePoints
        /\ Called(HeaderBytes
                  \o GroupBlocks(1, <<0>>, <<origin>>, <<None>>)
                  \o PointsBlock(PointList(choice, t)),
                  [choice |-> choice, trailing |-> t, origin |-> origin])

SpecPoints == InitPoints /\ [][Decode]_vars

\* --- Two buffers with the same recognized blocks (specification SpecPair) ---

\* How many blocks the first buffer of a pair holds at most.
MaxPairBlocks == 2

\* The blocks the first buffer is made of.
PairNames == {"other", "empty", "line", "text", "node"}

PairSeqs == UNION {[1..n -> PairNames] : n \in 0..MaxPairBlocks}

\* The types of the blocks a dispatch branch exists for (lines 883-905).
RecognizedTypes ==
    {BLOCK_SCENE_TREE, BLOCK_TREE_NODE, BLOCK_LINE_ITEM, BLOCK_ROOT_TEXT}

\* What the second buffer differs in, and the value its bytes take there: a
\* block type among them.
VaryKinds == {"header", "versions", "content", "all"}
VaryBytes == {BLOCK_LINE_ITEM, 255}

\* The byte at 1-based index i belongs to what kind leaves free, given the
\* block headers log met in the first buffer: the HEADER_LENGTH header
\* bytes, the reserved, minVersion and currentVersion bytes of a block
\* header, the content of a block of a type that is not recognized.
Varies(i, log, kind) ==
    \/ kind \in {"header", "all"} /\ i <= HEADER_LENGTH
    \/ /\ kind \in {"versions", "all"}
       /\ \E e \in 1..Len(log) : i \in (log[e].at + 5)..(log[e].at + 7)
    \/ /\ kind \in {"content", "all"}
       /\ \E e \in 1..Len(log) :
              /\ log[e].blockType \notin RecognizedTypes
              /\ log[e].outcome # "beyond"
              /\ i \in (log[e].contentStart + 1)..log[e].contentEnd

VaryBuffer(buffer, log, kind, b) ==
    [i \in 1..Len(buffer) |-> IF Varies(i, log, kind) THEN b ELSE buffer[i]]

\* The caller decodes a second buffer, which differs from the first in the
\* bytes of one kind.
CallVaried ==
    /\ pc = "done"
    /\ call < MaxCalls
    /\ \E kind \in VaryKinds, b \in VaryBytes :
           data' = VaryBuffer(data, blocks, kind, b)
    /\ call' = call + 1
    /\ prevPage' = page
    /\ page' = None
    /\ pc' = "start"
    /\ pos' = FreshLocals.pos
    /\ blockCount' = FreshLocals.blockCount
    /\ lineItems' = FreshLocals.lineItems
    /\ sceneTreeEntries' = FreshLocals.sceneTreeEntries
    /\ treeNodeMap' = FreshLocals.treeNodeMap
    /\ textResult' = FreshLocals.textResult
    /\ strokes' = FreshLocals.strokes
    /\ applied' = <<>>
    /\ blocks' = <<>>
    /\ UNCHANGED <<scene, rt>>

InitPair ==
    \E names \in PairSeqs, tail \in DOMAIN ScanTails :
        Called(ScanBuffer(names, tail), [names |-> names, tail |-> tail])

NextPair == Decode \/ CallVaried

SpecPair == InitPair /\ [][NextPair]_vars

\* --- LineItem blocks with a deletedLength (specification SpecDeleted) ---

\* How many LineItem blocks the buffer holds at most.
MaxLineBlocks == 2

\* Where field 5 stands: nowhere, before the value sub-block of field 6, or
\* after it; and the deletedLength it holds.
FieldPlaces == {"none", "before", "after"}
DeletedLengths == {0, 1, 65536}

LineShapes ==
    {[place |-> place, d |-> d, x |-> x] :
        place \in FieldPlaces, d \in DeletedLengths, x \in {1, 7}}

\* The content of a LineItem block of one point at (x, 2) of the shape given.
ShapedLineContent(shape) ==
    FieldId(1, GroupA) \o FieldId(2, <<1, 30>>)
    \o (IF shape.place = "before" THEN FieldU32(5, shape.d) ELSE <<>>)
    \o FieldSub(6, LineValueContent(<<Pt(shape.x, 2)>>))
    \o (IF shape.place = "after" THEN FieldU32(5, shape.d) ELSE <<>>)

InitDeleted ==
    \E n \in 1..MaxLineBlocks :
    \E shapes \in [1..n -> LineShapes] :
        /\ \A i \in 1..n : shapes[i].place = "none" => shapes[i].d = 0
        /\ Called(HeaderBytes
                  \o Flatten([i \in 1..n |->
                                 BlockBytes(BLOCK_LINE_ITEM, ShapedLineContent(shapes[i]))]),
                  [shapes |-> shapes])

SpecDeleted == InitDeleted /\ [][Decode]_vars

\* --- resolveTextContent on its own (specification SpecText) ---

\* How many items a chain of text items holds at most.
MaxChain == 3
\* How many items with freely chosen neighbours are resolved together.
MaxLoose == 2

\* The id and the character of the i-th text item: the authors alternate, so
\* that the order of the ids is not the order of the clocks.
IdOf(i) == <<1 + (i % 2), 10 * i>>
CharOf(i) == 96 + i

Perms(n) == {f \in [1..n -> 1..n] : \A i, j \in 1..n : i # j => f[i] # f[j]}

LinkStyles == {"both", "left", "right"}

\* The item at position j of a chain of n items: c gives the item at each
\* position, style which neighbours the items name, d the position of the
\* deleted item (0 for none) and dl its deletedLength.
ChainItem(n, c, style, d, dl, j) ==
    TextItem(IdOf(c[j]),
             IF style # "right" /\ j > 1 THEN IdOf(c[j - 1]) ELSE <<0, 0>>,
             IF style # "left" /\ j < n THEN IdOf(c[j + 1]) ELSE <<0, 0>>,
             IF j = d THEN dl ELSE 0,
             Str(<<CharOf(c[j])>>))

RECURSIVE LiveChars(_)
LiveChars(items) ==
    IF items = <<>> THEN <<>>
    ELSE (IF Head(items).deletedLength > 0 THEN <<>> ELSE Head(items).value.s)
         \o LiveChars(Tail(items))

\* A run of resolveTextContent yet to start on the items given.
TextRun(items) ==
    [stage |-> "items", items |-> items, formats |-> <<>>, expanded |-> <<>>,
     sortedIds |-> <<>>, out |-> None]

\* The state in which resolveTextContent is called on items; s describes
\* where the items come from.
Resolving(items, s) ==
    /\ rt = TextRun(items)
    /\ scene = s
    /\ data = <<>>
    /\ call = 1
    /\ pc = "text"
    /\ pos = 0
    /\ blockCount = 0
    /\ lineItems = <<>>
    /\ sceneTreeEntries = <<>>
    /\ treeNodeMap = <<>>
    /\ textResult = None
    /\ strokes = <<>>
    /\ applied = <<>>
    /\ page = None
    /\ prevPage = None
    /\ blocks = <<>>

\* The chains: every assignment of the items to the positions, every link
\* style, at most one deleted item, every order of supply.
InitChain ==
    \E n \in 1..MaxChain :
    \E c \in Perms(n), o \in Perms(n), style \in LinkStyles, d \in 0..n, dl \in 1..2 :
        /\ d = 0 => dl = 1
        /\ Resolving([k \in 1..n |-> ChainItem(n, c, style, d, dl, o[k])],
                     [kind |-> "chain", style |-> style, deleted |-> d,
                      canon |-> [j \in 1..n |-> ChainItem(n, c, style, d, dl, j)]])

\* Live single-character items whose neighbours are chosen freely among the
\* end marker, the other items and an id no item has.
InitLoose ==
    \E n \in 1..MaxLoose :
    \E o \in Perms(n) :
    \E left, right \in [1..n -> 0..(n + 1)] :
        /\ \A i \in 1..n : left[i] # i /\ right[i] # i
        /\ Resolving([k \in 1..n |->
                         TextItem(IdOf(o[k]),
                                  IF left[o[k]] = 0 THEN <<0, 0>> ELSE IdOf(left[o[k]]),
                                  IF right[o[k]] = 0 THEN <<0, 0>> ELSE IdOf(right[o[k]]),
                                  0, Str(<<CharOf(o[k])>>))],
                     [kind |-> "loose", style |-> "free", deleted |-> 0,
                      canon |-> [i \in 1..n |->
                         TextItem(IdOf(i),
                                  IF left[i] = 0 THEN <<0, 0>> ELSE IdOf(left[i]),
                                  IF right[i] = 0 THEN <<0, 0>> ELSE IdOf(right[i]),
                                  0, Str(<<CharOf(i)>>))]])

InitText == InitChain \/ InitLoose

\* Line 799.
TextExpand ==
    /\ pc = "text" /\ rt.stage = "items"
    /\ rt' = [rt EXCEPT !.stage = "expanded", !.expanded = expandTextItems(rt.items)]
    /\ UNCHANGED <<data, scene, call, pc, pos, blockCount, lineItems,
                   sceneTreeEntries, treeNodeMap, textResult, strokes, applied,
                   page, prevPage, blocks>>

\* Line 801.
TextSort ==
    /\ pc = "text" /\ rt.stage = "expanded"
    /\ rt' = [rt EXCEPT !.stage = "sorted", !.sortedIds = toposortItems(rt.expanded)]
    /\ UNCHANGED <<data, scene, call, pc, pos, blockCount, lineItems,
                   sceneTreeEntries, treeNodeMap, textResult, strokes, applied,
                   page, prevPage, blocks>>

\* Lines 803-843: the call returns.
TextResolve ==
    /\ pc = "text" /\ rt.stage = "sorted"
    /\ rt' = [rt EXCEPT !.stage = "resolved",
                        !.out = Some(resolveTextContent(rt.items, rt.formats))]
    /\ UNCHANGED <<data, scene, call, pc, pos, blockCount, lineItems,
                   sceneTreeEntries, treeNodeMap, textResult, strokes, applied,
                   page, prevPage, blocks>>

NextText == TextExpand \/ TextSort \/ TextResolve

SpecText == InitText /\ [][NextText]_vars

\* --- Text with deleted runs, format markers and formats (specification SpecStyle) ---

\* How many items the text holds at most, and how many formatting entries.
MaxPieces == 3
MaxFormats == 2

\* The items: a string of one or two characters, a deleted run of one or
\* two, a format marker.
PieceKinds == {"live1", "live2", "gone1", "gone2", "mark"}

\* How many ids the item takes.
PieceLen(kind) == IF kind \in {"live2", "gone2"} THEN 2 ELSE 1

PieceChars(kind, p) ==
    IF kind = "live1" THEN <<CharOf(p)>>
    ELSE IF kind = "live2" THEN <<CharOf(p), CharOf(p) - 32>>
    ELSE <<>>

\* The id of the j-th character (from 0) of the item at p.
PieceId(p, j) == <<IdOf(p)[1], IdOf(p)[2] + j>>

\* The item at p: its left neighbour is the last character of the item
\* before it, its right neighbour the first character of the item after it.
PieceItem(kinds, p) ==
    TextItem(IdOf(p),
             IF p = 1 THEN <<0, 0>> ELSE PieceId(p - 1, PieceLen(kinds[p - 1]) - 1),
             IF p = Len(kinds) THEN <<0, 0>> ELSE IdOf(p + 1),
             IF kinds[p] = "gone1" THEN 1 ELSE IF kinds[p] = "gone2" THEN 2 ELSE 0,
             IF kinds[p] = "mark" THEN Num(STYLE_BOLD) ELSE Str(PieceChars(kinds[p], p)))

\* The ids the items take, in the order of the text.
RECURSIVE PieceIds(_, _)
PieceIds(kinds, p) ==
    IF p > Len(kinds) THEN <<>>
    ELSE [j \in 1..PieceLen(kinds[p]) |-> PieceId(p, j - 1)] \o PieceIds(kinds, p + 1)

\* An id no item takes.
AbsentId == <<3, 7>>

\* The charId of a formatting entry: the end marker for 0, an id of the
\* text, or (beyond the last) the absent id.
TargetId(ids, t) ==
    IF t = 0 THEN <<0, 0>> ELSE IF t > Len(ids) THEN AbsentId ELSE ids[t]

\* The formatting entries: the e-th has the format code e.
FormatsOf(ids, targets) ==
    [e \in 1..Len(targets) |-> [charId |-> TargetId(ids, targets[e]), formatCode |-> e]]

\* The state in which resolveTextContent is called on items and formats.
Styling(items, formats, s) ==
    /\ rt = [TextRun(items) EXCEPT !.formats = formats]
    /\ scene = s
    /\ data = <<>>
    /\ call = 1
    /\ pc = "text"
    /\ pos = 0
    /\ blockCount = 0
    /\ lineItems = <<>>
    /\ sceneTreeEntries = <<>>
    /\ treeNodeMap = <<>>
    /\ textResult = None
    /\ strokes = <<>>
    /\ applied = <<>>
    /\ page = None
    /\ prevPage = None
    /\ blocks = <<>>

InitStyle ==
    \E n \in 1..MaxPieces, f \in 0..MaxFormats :
    \E kinds \in [1..n -> PieceKinds] :
    \E targets \in [1..f -> 0..(Len(PieceIds(kinds, 1)) + 1)] :
        Styling([p \in 1..n |-> PieceItem(kinds, p)],
                FormatsOf(PieceIds(kinds, 1), targets),
                [kind |-> "style", kinds |-> kinds, targets |-> targets])

SpecStyle == InitStyle /\ [][NextText]_vars

\* --- expandTextItem on one item (specification SpecExpand) ---

\* How many characters, and how many deleted ones, the item holds at most.
MaxRun == 3

\* The ids the item and its neighbours take.
RunIds == {<<1, 16>>, <<2, 0>>}
NeighbourIds == {<<0, 0>>, <<1, 5>>, <<2, 7>>}

\* The value of the item: a format code, or a string of n characters.
RunValue(n, mark) ==
    IF mark THEN Num(STYLE_HEADING) ELSE Str([i \in 1..n |-> CharOf(i)])

\* One item of n characters or a format code, of deletedLength d.
InitExpand ==
    \E n \in 0..MaxRun, d \in 0..MaxRun, mark \in BOOLEAN :
    \E id \in RunIds, left, right \in NeighbourIds :
        /\ mark => n = 0
        /\ Resolving(<<TextItem(id, left, right, d, RunValue(n, mark))>>,
                     [kind |-> "run", n |-> n, d |-> d, mark |-> mark])

SpecExpand == InitExpand /\ [][NextText]_vars

\* --- toposortItems on its own, round by round (specification SpecSort) ---

\* How many items with freely chosen neighbours are sorted together.
MaxFree == 2
\* How many items a chain and the items inserted into it hold at most.
MaxInserts == 4

\* A neighbour: nothing, the i-th item, or (beyond the n-th) an id no item has.
RefOf(i) == IF i = 0 THEN <<0, 0>> ELSE IdOf(i)

\* The j-th item of a chain of k items linked both ways; with back > 0 the
\* left neighbour of the item at back is the last item of the chain, which
\* closes a cycle.
LinkedItem(k, back, j) ==
    TextItem(IdOf(j),
             IF j = back THEN IdOf(k) ELSE RefOf(j - 1),
             IF j < k THEN IdOf(j + 1) ELSE <<0, 0>>,
             0, Str(<<CharOf(j)>>))

\* The i-th item inserted into a chain of k items, between the items at g
\* and at g + 1.
InsertedItem(k, i, g) ==
    TextItem(IdOf(k + i), RefOf(g), IF g < k THEN IdOf(g + 1) ELSE <<0, 0>>,
             0, Str(<<CharOf(k + i)>>))

Reversed(seq) == [i \in 1..Len(seq) |-> seq[Len(seq) + 1 - i]]

\* A call of toposortItems yet to start on the items given.
SortRun(items) ==
    [stage |-> "items", items |-> items, itemDict |-> <<>>, graph |-> <<>>,
     result |-> <<>>, round |-> 0]

\* The state in which toposortItems is called on items.
Sorting(items, s) ==
    /\ rt = SortRun(items)
    /\ scene = s
    /\ data = <<>>
    /\ call = 1
    /\ pc = "sort"
    /\ pos = 0
    /\ blockCount = 0
    /\ lineItems = <<>>
    /\ sceneTreeEntries = <<>>
    /\ treeNodeMap = <<>>
    /\ textResult = None
    /\ strokes = <<>>
    /\ applied = <<>>
    /\ page = None
    /\ prevPage = None
    /\ blocks = <<>>

\* Items whose neighbours are chosen freely among the end marker, the items
\* (themselves included) and an id no item has.
InitFree ==
    \E n \in 1..MaxFree :
    \E left, right \in [1..n -> 0..(n + 1)] :
        Sorting([i \in 1..n |->
                    TextItem(IdOf(i), RefOf(left[i]), RefOf(right[i]), 0,
                             Str(<<CharOf(i)>>))],
                [kind |-> "free", k |-> n, gaps |-> <<>>, back |-> 0])

\* A chain of k items and m items inserted into its gaps, supplied last
\* item first.
InitInserts ==
    \E k \in 0..MaxInserts :
    \E m \in 0..(MaxInserts - k), back \in 0..k :
    \E gaps \in [1..m -> 0..k] :
        Sorting(Reversed([j \in 1..k |-> LinkedItem(k, back, j)]
                         \o [i \in 1..m |-> InsertedItem(k, i, gaps[i])]),
                [kind |-> "inserts", k |-> k, gaps |-> gaps, back |-> back])

InitSort == InitFree \/ InitInserts

\* Lines 710-748: the items by key, and the graph with its sources.
SortBuild ==
    /\ pc = "sort" /\ rt.stage = "items"
    /\ \E itemDict \in {BuildItemDict(rt.items)} :
          rt' = IF Len(itemDict) = 0
                THEN [rt EXCEPT !.stage = "sorted"]
                ELSE [rt EXCEPT !.stage = "rounds", !.itemDict = itemDict,
                                !.graph = Let(BuildGraph(itemDict), LAMBDA graph :
                                              FillSources(graph, AllDeps(graph)))]
    /\ UNCHANGED <<data, scene, call, pc, pos, blockCount, lineItems,
                   sceneTreeEntries, treeNodeMap, textResult, strokes, applied,
                   page, prevPage, blocks>>

\* Lines 751-781: one round of the loop.
SortRound ==
    /\ pc = "sort" /\ rt.stage = "rounds"
    /\ \E ready \in {ReadyKeys(rt.graph)} :
          rt' = IF SortEnds(ready)
                THEN [rt EXCEPT !.stage = "sorted"]
                ELSE [rt EXCEPT !.graph = RemoveReady(@, Range(ready)),
                                !.result = @ \o ItemIds(SortById(
                                               ReadyItems(ready, rt.itemDict))),
                                !.round = @ + 1]
    /\ UNCHANGED <<data, scene, call, pc, pos, blockCount, lineItems,
                   sceneTreeEntries, treeNodeMap, textResult, strokes, applied,
                   page, prevPage, blocks>>

NextSort == SortBuild \/ SortRound

SpecSort == InitSort /\ [][NextSort]_vars

\* --- A chain of anchored groups (specification SpecNearest) ---

\* How many groups the chain above a stroke holds at most.
MaxNested == 2

\* The text the anchors refer to: two paragraphs of two characters, the
\* first a heading.
NearestShape == <<2, 2>>
NearestStyle == <<STYLE_HEADING, 0>>

\* What a group's TreeNode block carries as anchorId: nothing, the id of a
\* character of the first or of the second paragraph, or an id no character
\* of the text has.
AnchorKinds == {"none", "first", "second", "absent"}
AnchorOffset(kind) == IF kind = "first" THEN 0 ELSE ParStart(NearestShape, 2)
AnchorIdOf(kind) ==
    CASE kind = "none" -> None
      [] kind = "absent" -> AbsentId
      [] OTHER -> CharId(AnchorOffset(kind))

\* The RootText block of the page: none, the two paragraphs, or one space.
TextKinds == {"none", "text", "blank"}
NearestText(kind) ==
    IF kind = "none" THEN <<>>
    ELSE BlockBytes(BLOCK_ROOT_TEXT,
                    RootTextContent(
                        <<TextItem(TextItemId, <<0, 0>>, <<0, 0>>, 0,
                                   Str(IF kind = "text" THEN ShapeText(NearestShape)
                                       ELSE <<32>>))>>,
                        IF kind = "text" THEN ShapeFormats(NearestShape, NearestStyle)
                        ELSE <<>>,
                        <<3, 100>>))

\* Group g hangs under group g - 1, the first group under the root; the
\* stroke hangs under the group q, or under the root.
InitNearest ==
    \E anchor \in [1..MaxNested -> AnchorKinds], text \in TextKinds,
       q \in 0..MaxNested :
        Called(HeaderBytes
               \o NearestText(text)
               \o GroupBlocks(MaxNested, [g \in 1..MaxNested |-> g - 1],
                              [g \in 1..MaxNested |-> None],
                              [g \in 1..MaxNested |-> AnchorIdOf(anchor[g])])
               \o StrokeBlock(q),
               [shape |-> NearestShape, style |-> NearestStyle, posY |-> 100,
                anchor |-> anchor, text |-> text, strokeParent |-> q])

SpecNearest == InitNearest /\ [][Decode]_vars

\* --- Scene trees with parent cycles (specification SpecLoop) ---

\* How many groups the scene tree holds at most.
MaxLoop == 2

\* Every group has an anchor origin of its own, a power of two, so that a
\* sum of origins tells which groups were added and how often.
LoopOrigin(g) == <<Pow2(g - 1), 3 * Pow2(g - 1)>>

\* The parent of every group is the root, any group (itself included) or
\* missing; at most one group carries an anchorId, that of the first
\* character of the text, and the text is there or not.
InitLoop ==
    \E parent \in [1..MaxLoop -> -1..MaxLoop], anchored \in 0..MaxLoop,
       q \in 0..MaxLoop, text \in BOOLEAN :
        Called(HeaderBytes
               \o (IF text
                   THEN BlockBytes(BLOCK_ROOT_TEXT,
                                   RootTextContent(
                                       <<TextItem(TextItemId, <<0, 0>>, <<0, 0>>, 0,
                                                  Str(<<97, 98>>))>>,
                                       <<>>, <<3, 100>>))
                   ELSE <<>>)
               \o GroupBlocks(MaxLoop, parent, [g \in 1..MaxLoop |-> LoopOrigin(g)],
                              [g \in 1..MaxLoop |->
                                  IF g = anchored THEN CharId(0) ELSE None])
               \o StrokeBlock(q),
               [parent |-> parent, anchored |-> anchored, strokeParent |-> q,
                text |-> text])

SpecLoop == InitLoop /\ [][Decode]_vars

\* --- Blocks with a field no decoder knows (specification SpecSkip) ---

\* How long the run of a Length4 field is at most, and how many extra bytes
\* the varint of a CrdtId field has at most.
MaxSkipLen == 2

\* The page the field is put into: a text of two paragraphs, a group under
\* the root with an anchor origin and an anchor in the second paragraph, a
\* group under that group, and a stroke under the latter.
SkipTypes ==
    <<BLOCK_ROOT_TEXT, BLOCK_SCENE_TREE, BLOCK_SCENE_TREE, BLOCK_TREE_NODE,
      BLOCK_LINE_ITEM>>
SkipContents ==
    <<RootTextContent(<<TextItem(TextItemId, <<0, 0>>, <<0, 0>>, 0,
                                 Str(ShapeText(<<2, 2>>)))>>,
                      ShapeFormats(<<2, 2>>, <<STYLE_HEADING, 0>>), <<3, 100>>),
      SceneTreeContent(GroupId(1), GroupId(1), ParentId(0)),
      SceneTreeContent(GroupId(2), GroupId(2), ParentId(1)),
      TreeNodeContent(GroupId(1), CharId(3), Some(10), Some(5)),
      LineItemContent(ParentId(2), <<1, 40>>, 0, <<Pt(1, 2)>>)>>

\* The blocks that get the field, and the places in their content: before
\* the first field, after it (a tag byte and a CrdtId of two bytes), or
\* after the last field.
SkipTargets == {1, 3, 4, 5}
SkipPlaces(b) == {0, 3, Len(SkipContents[b])}

\* The field: an index no decoder knows (with a tag of one byte or of two),
\* a wire type, and the bytes that go with it. fill is the byte the payload
\* is made of: 31 reads as the tag of a known field, 255 as an unfinished
\* varint.
SkipIndexes == {0, 9}
FillBytes == {0, 31, 255}
SkipShapes ==
    {sh \in [index : SkipIndexes,
             wire : {TAG_BYTE1, TAG_BYTE4, TAG_BYTE8, TAG_LENGTH4, TAG_ID},
             n : 0..MaxSkipLen, fill : FillBytes] :
        /\ sh.wire \in {TAG_BYTE1, TAG_BYTE4, TAG_BYTE8} => sh.n = 0
        /\ (sh.wire = TAG_LENGTH4 /\ sh.n = 0) => sh.fill = 0}

Run(n, byte) == [i \in 1..n |-> byte]
SkipClock(sh) == IF sh.n = 0 THEN 5 ELSE Pow2(7 * sh.n)
SkipPayload(sh) ==
    CASE sh.wire = TAG_BYTE1 -> Run(1, sh.fill)
      [] sh.wire = TAG_BYTE4 -> Run(4, sh.fill)
      [] sh.wire = TAG_BYTE8 -> Run(8, sh.fill)
      [] sh.wire = TAG_LENGTH4 -> U32LE(sh.n) \o Run(sh.n, sh.fill)
      [] OTHER -> Run(1, sh.fill) \o VarintBytes(SkipClock(sh))
SkipField(sh) == TagBytes(sh.index, sh.wire) \o SkipPayload(sh)

InsertAt(content, at, field) ==
    SubSeq(content, 1, at) \o field \o SubSeq(content, at + 1, Len(content))

\* The buffer with the field at the place at of block b.
SkipBuffer(b, at, field) ==
    HeaderBytes
    \o Flatten([i \in 1..Len(SkipContents) |->
                   BlockBytes(SkipTypes[i],
                              IF i = b THEN InsertAt(SkipContents[i], at, field)
                              ELSE SkipContents[i])])

\* Where in the buffer the field's value starts.
SkipValueStart(b, at, sh) ==
    Len(HeaderBytes
        \o Flatten([i \in 1..(b - 1) |-> BlockBytes(SkipTypes[i], SkipContents[i])]))
    + 8 + at + Len(TagBytes(sh.index, sh.wire))

InitSkip ==
    \E b \in SkipTargets, sh \in SkipShapes :
    \E at \in SkipPlaces(b) :
        Called(SkipBuffer(b, at, SkipField(sh)),
               [block |-> b, at |-> at, field |-> sh,
                valueStart |-> SkipValueStart(b, at, sh)])

\* The caller decodes the buffer that lacks the field.
CallPlain ==
    /\ pc = "done"
    /\ call < MaxCalls
    /\ data' = SkipBuffer(scene.block, 0, <<>>)
    /\ call' = call + 1
    /\ prevPage' = page
    /\ page' = None
    /\ pc' = "start"
    /\ pos' = FreshLocals.pos
    /\ blockCount' = FreshLocals.blockCount
    /\ lineItems' = FreshLocals.lineItems
    /\ sceneTreeEntries' = FreshLocals.sceneTreeEntries
    /\ treeNodeMap' = FreshLocals.treeNodeMap
    /\ textResult' = FreshLocals.textResult
    /\ strokes' = FreshLocals.strokes
    /\ applied' = <<>>
    /\ blocks' = <<>>
    /\ UNCHANGED <<scene, rt>>

NextSkip == Decode \/ CallPlain

SpecSkip == InitSkip /\ [][NextSkip]_vars

\* --- One cursor and the operations made on it (specification SpecCursor) ---

\* How long the region of the cursor is at most.
MaxCursorLen == 5

\* The bytes of the region: 129 is a varint byte with the continuation bit;
\* from the fourth byte on the bytes stay small, so that a u32 stays small.
CursorBytes(i) == IF i < 4 THEN {0, 1, 129} ELSE {0, 1}
CursorBuffers ==
    UNION {{b \in [1..n -> {0, 1, 129}] : \A i \in 1..n : b[i] \in CursorBytes(i)} :
              n \in 0..MaxCursorLen}

\* The cursor, the position tell() has last returned, the last operation
\* and the error it has thrown ("" when it has returned).
CursorRun(r) == [stage |-> "cursor", r |-> r, mark |-> 0, op |-> "new", error |-> ""]

InitCursor ==
    /\ data \in CursorBuffers
    /\ rt = CursorRun([off |-> 0, len |-> Len(data), pos |-> 0])
    /\ scene = None
    /\ call = 1
    /\ pc = "cursor"
    /\ pos = 0
    /\ blockCount = 0
    /\ lineItems = <<>>
    /\ sceneTreeEntries = <<>>
    /\ treeNodeMap = <<>>
    /\ textResult = None
    /\ strokes = <<>>
    /\ applied = <<>>
    /\ page = None
    /\ prevPage = None
    /\ blocks = <<>>

ReadOps == {"readU8", "readU16", "readU32", "readF32", "readF64", "readVarint",
            "readBytes"}

ReadBy(op, r, n) ==
    CASE op = "readU8" -> readU8(r)
      [] op = "readU16" -> readU16(r)
      [] op = "readU32" -> readU32(r)
      [] op = "readF32" -> readF32(r)
      [] op = "readF64" -> readF64(r)
      [] op = "readVarint" -> readVarint(r)
      [] OTHER -> readBytes(r, n)

\* The cursor after the operation with result res: where a varint runs out
\* of data (line 203) the position has come to the end of the region, and
\* before the varint of a CrdtId field the author byte has been skipped
\* (line 254); the other operations throw before they move the cursor.
CursorAfter(r, res, varint, skipped) ==
    IF res.ok THEN res.r
    ELSE IF ~varint THEN r
    ELSE IF r.pos + skipped > r.len THEN skip(r, skipped)
    ELSE seek(r, r.len)

Performed(op, r, res, varint, skipped) ==
    rt' = [rt EXCEPT !.r = CursorAfter(r, res, varint, skipped), !.op = op,
                     !.error = IF res.ok THEN "" ELSE res.err]

\* The decoders read and skip while remaining() is not negative.
CursorRead ==
    /\ pc = "cursor" /\ remaining(rt.r) >= 0
    /\ \E op \in ReadOps, n \in 0..MaxCursorLen :
           \E res \in {ReadBy(op, rt.r, n)} :
               Performed(op, rt.r, res, op = "readVarint", 0)
    /\ UNCHANGED <<data, scene, call, pc, pos, blockCount, lineItems,
                   sceneTreeEntries, treeNodeMap, textResult, strokes, applied,
                   page, prevPage, blocks>>

SkipOps == [skipByte1 |-> TAG_BYTE1, skipByte4 |-> TAG_BYTE4, skipByte8 |-> TAG_BYTE8,
            skipLength4 |-> TAG_LENGTH4, skipId |-> TAG_ID, skipOther |-> 0]

CursorSkip ==
    /\ pc = "cursor" /\ remaining(rt.r) >= 0
    /\ \E op \in DOMAIN SkipOps :
           \E res \in {skipTagValue(rt.r, [index |-> 9, type |-> SkipOps[op]])} :
               Performed(op, rt.r, res, op \in {"skipId", "skipOther"},
                         IF op = "skipId" THEN 1 ELSE 0)
    /\ UNCHANGED <<data, scene, call, pc, pos, blockCount, lineItems,
                   sceneTreeEntries, treeNodeMap, textResult, strokes, applied,
                   page, prevPage, blocks>>

\* tell() before a tag that may have to be given back (line 619).
CursorMark ==
    /\ pc = "cursor" /\ remaining(rt.r) >= 0
    /\ rt.mark # tell(rt.r)
    /\ rt' = [rt EXCEPT !.mark = tell(rt.r), !.op = "tell", !.error = ""]
    /\ UNCHANGED <<data, scene, call, pc, pos, blockCount, lineItems,
                   sceneTreeEntries, treeNodeMap, textResult, strokes, applied,
                   page, prevPage, blocks>>

\* seek(pos) back to the position told (lines 624 and 627).
CursorSeek ==
    /\ pc = "cursor"
    /\ rt.mark # tell(rt.r)
    /\ rt' = [rt EXCEPT !.r = seek(rt.r, rt.mark), !.op = "seek", !.error = ""]
    /\ UNCHANGED <<data, scene, call, pc, pos, blockCount, lineItems,
                   sceneTreeEntries, treeNodeMap, textResult, strokes, applied,
                   page, prevPage, blocks>>

NextCursor == CursorRead \/ CursorSkip \/ CursorMark \/ CursorSeek

SpecCursor == InitCursor /\ [][NextCursor]_vars

\* --- A sub-block declared longer than its block (specification SpecReach) ---

\* By how many bytes the nested length prefix exceeds the bytes the block
\* has left, at most: 13 reaches the end of the longest following block.
MaxReach == 13

\* The block whose last field is the sub-block, and what it decodes to:
\* the SceneTree entry of group A (the sub-block holds the parentId), the
\* TreeNode of group A (it holds anchorOriginX) or a LineItem (it holds the
\* stroke).
Victims == {"tree", "node", "line"}

VictimType ==
    [tree |-> BLOCK_SCENE_TREE, node |-> BLOCK_TREE_NODE, line |-> BLOCK_LINE_ITEM]

\* The bytes of its own that the sub-block has.
OwnBytes ==
    [tree |-> <<>>, node |-> FieldId(1, <<1, 1>>),
     line |-> LineValueContent(<<Pt(7, 8)>>)]

VictimContent(v, extra) ==
    (CASE v = "tree" -> FieldId(1, GroupA) \o FieldId(2, GroupA) \o TagBytes(4, TAG_LENGTH4)
       [] v = "node" -> FieldId(1, GroupA) \o TagBytes(10, TAG_LENGTH4)
       [] OTHER -> FieldId(1, <<0, 0>>) \o FieldId(2, <<1, 41>>)
                   \o TagBytes(6, TAG_LENGTH4))
    \o U32LE(Len(OwnBytes[v]) + extra) \o OwnBytes[v]

\* The content of the block that follows, of a type no decoder knows: a
\* field that the sub-block's decoder would take for its own. There are two
\* of them, which differ in the value.
ForeignId == <<1, 77>>
Foreign(v, alt) ==
    CASE v = "tree" -> FieldId(1, IF alt THEN <<1, 78>> ELSE ForeignId)
      [] v = "node" -> FieldF32(2, IF alt THEN 32 ELSE 16)
      [] OTHER -> FieldU32(2, IF alt THEN 4 ELSE 3)

\* Before the two blocks: the TreeNode of the foreign id, with an anchor
\* origin, and a stroke under group A.
ReachBuffer(v, extra, alt) ==
    HeaderBytes
    \o BlockBytes(BLOCK_TREE_NODE, TreeNodeContent(ForeignId, None, Some(10), Some(5)))
    \o BlockBytes(BLOCK_LINE_ITEM, LineItemContent(GroupA, <<1, 40>>, 0, <<Pt(1, 2)>>))
    \o BlockBytes(VictimType[v], VictimContent(v, extra))
    \o BlockBytes(9, Foreign(v, alt))

InitReach ==
    \E v \in Victims, extra \in 0..MaxReach :
        Called(ReachBuffer(v, extra, FALSE),
               [victim |-> v, extra |-> extra, alt |-> FALSE])

\* The caller decodes the buffer that differs in the content of the last
\* block only.
CallForeign ==
    /\ pc = "done"
    /\ call < MaxCalls
    /\ data' = ReachBuffer(scene.victim, scene.extra, ~scene.alt)
    /\ scene' = [scene EXCEPT !.alt = ~@]
    /\ call' = call + 1
    /\ prevPage' = page
    /\ page' = None
    /\ pc' = "start"
    /\ pos' = FreshLocals.pos
    /\ blockCount' = FreshLocals.blockCount
    /\ lineItems' = FreshLocals.lineItems
    /\ sceneTreeEntries' = FreshLocals.sceneTreeEntries
    /\ treeNodeMap' = FreshLocals.treeNodeMap
    /\ textResult' = FreshLocals.textResult
    /\ strokes' = FreshLocals.strokes
    /\ applied' = <<>>
    /\ blocks' = <<>>
    /\ UNCHANGED rt

NextReach == Decode \/ CallForeign

SpecReach == InitReach /\ [][NextReach]_vars

\* --- Buffers with several RootText blocks (specification SpecTexts) ---

\* How many RootText blocks a buffer holds at most.
MaxTexts == 2

\* The RootText blocks by name: three texts with different character ids
\* and base Y, a text of one space, a block whose decoder throws after its
\* text content, and a block of length zero.
TextShapes ==
    [ one |-> [id |-> <<1, 16>>, text |-> <<97, 98>>, posY |-> 100],
      two |-> [id |-> <<1, 14>>, text |-> <<120, 10, 121, 122>>, posY |-> 200],
      far |-> [id |-> <<1, 30>>, text |-> <<113>>, posY |-> 300],
      blank |-> [id |-> <<1, 16>>, text |-> <<32>>, posY |-> 100],
      bad |-> [id |-> <<1, 16>>, text |-> <<122, 122>>, posY |-> 400] ]

TextKindNames == DOMAIN TextShapes \cup {"zero"}

TextBlockBytes(kind) ==
    IF kind = "zero" THEN BlockBytes(BLOCK_ROOT_TEXT, <<>>)
    ELSE BlockBytes(BLOCK_ROOT_TEXT,
                    RootTextContent(
                        <<TextItem(TextShapes[kind].id, <<0, 0>>, <<0, 0>>, 0,
                                   Str(TextShapes[kind].text))>>,
                        <<>>, <<3, TextShapes[kind].posY>>)
                    \o (IF kind = "bad" THEN TagBytes(1, TAG_ID) ELSE <<>>))

\* The id the stroke's group is anchored to: the second character of the
\* text one, the fourth of the text two, and no character of the text far.
SharedAnchor == <<1, 17>>

InitTexts ==
    \E kinds \in UNION {[1..n -> TextKindNames] : n \in 1..MaxTexts} :
        Called(HeaderBytes
               \o Flatten([i \in 1..Len(kinds) |-> TextBlockBytes(kinds[i])])
               \o GroupBlocks(1, <<0>>, <<None>>, <<SharedAnchor>>)
               \o StrokeBlock(1),
               [kinds |-> kinds])

SpecTexts == InitTexts /\ [][Decode]_vars

\* --- buildFolderTree (cloud-client.ts), call by call (specification SpecFolders) ---

\* How many documents the list holds at most, and how many calls of getPath
\* the engine's stack holds before it throws its RangeError.
MaxDocs == 3
MaxStack == 6

\* Strings are sequences of code points: "d1", "A", "" and "trash".
DocId(i) == <<100, 48 + i>>
DocName(i) == <<64 + i>>
Trash == <<116, 114, 97, 115, 104>>
Slash == <<47>>

\* The parent of a document: "" (-2), "trash" (-1), the id of no document
\* of the list (0), or the id of a document, its own included.
ParentOf(q) ==
    CASE q = -2 -> <<>>
      [] q = -1 -> Trash
      [] OTHER -> DocId(q)

DocList(n, parent, trashed) ==
    [i \in 1..n |-> [id |-> DocId(i), name |-> DocName(i),
                     parent |-> ParentOf(parent[i]), isTrashed |-> i = trashed]]

\* The locals of a call of buildFolderTree: byId, paths, the index of the
\* loop of line 381, and the calls of getPath in progress, the innermost
\* last (called: the call of line 371 has been made).
FolderRun(documents) ==
    [stage |-> "index", documents |-> documents, byId |-> <<>>, paths |-> <<>>,
     next |-> 1, stack |-> <<>>]

Building(documents, s) ==
    /\ rt = FolderRun(documents)
    /\ scene = s
    /\ data = <<>>
    /\ call = 1
    /\ pc = "folders"
    /\ pos = 0
    /\ blockCount = 0
    /\ lineItems = <<>>
    /\ sceneTreeEntries = <<>>
    /\ treeNodeMap = <<>>
    /\ textResult = None
    /\ strokes = <<>>
    /\ applied = <<>>
    /\ page = None
    /\ prevPage = None
    /\ blocks = <<>>

InitFolders ==
    \E n \in 1..MaxDocs :
    \E parent \in [1..n -> -2..n], trashed \in 0..n :
        Building(DocList(n, parent, trashed),
                 [n |-> n, parent |-> parent, trashed |-> trashed])

RECURSIVE IndexById(_, _)
\* Lines 355-356.
IndexById(documents, byId) ==
    IF documents = <<>> THEN byId
    ELSE IndexById(Tail(documents), MapSet(byId, Head(documents).id, Head(documents)))

FolderIndex ==
    /\ pc = "folders" /\ rt.stage = "index"
    /\ rt' = [rt EXCEPT !.stage = "loop", !.byId = IndexById(rt.documents, <<>>)]
    /\ UNCHANGED <<data, scene, call, pc, pos, blockCount, lineItems,
                   sceneTreeEntries, treeNodeMap, textResult, strokes, applied,
                   page, prevPage, blocks>>

Frame(doc) == [doc |-> doc, called |-> FALSE]

\* A call of getPath is made: the engine throws when its stack is full.
Enter(run, doc) ==
    IF Len(run.stack) >= MaxStack THEN [run EXCEPT !.stage = "thrown"]
    ELSE [run EXCEPT !.stack = Append(@, Frame(doc))]

\* The innermost call returns after paths.set(doc.id, path).
Leave(run, doc, path) ==
    [run EXCEPT !.paths = MapSet(@, doc.id, path),
                !.stack = SubSeq(@, 1, Len(@) - 1)]

\* Lines 381-385: one iteration of the loop over the documents, up to the
\* call of getPath, or the return of the paths.
FolderLoop ==
    /\ pc = "folders" /\ rt.stage = "loop" /\ rt.stack = <<>>
    /\ rt' = IF rt.next > Len(rt.documents) THEN [rt EXCEPT !.stage = "returned"]
             ELSE IF rt.documents[rt.next].isTrashed THEN [rt EXCEPT !.next = @ + 1]
             ELSE Enter([rt EXCEPT !.next = @ + 1], rt.documents[rt.next])
    /\ UNCHANGED <<data, scene, call, pc, pos, blockCount, lineItems,
                   sceneTreeEntries, treeNodeMap, textResult, strokes, applied,
                   page, prevPage, blocks>>

\* Lines 360-378: the innermost call of getPath runs up to its next call or
\* to its return.
getPath(run, top) ==
    LET doc == top.doc
    IN  IF top.called
        THEN \* lines 371-374, the call of line 371 having returned
             Leave(run, doc, MapGet(run.paths, doc.parent) \o Slash \o doc.name)
        ELSE IF MapHas(run.paths, doc.id)
        THEN [run EXCEPT !.stack = SubSeq(@, 1, Len(@) - 1)]
        ELSE IF doc.parent = <<>> \/ doc.parent = Trash
        THEN Leave(run, doc, doc.name)
        ELSE IF MapHas(run.byId, doc.parent)
        THEN Enter([run EXCEPT !.stack[Len(run.stack)].called = TRUE],
                   MapGet(run.byId, doc.parent))
        ELSE Leave(run, doc, doc.name)

FolderStep ==
    /\ pc = "folders" /\ rt.stage = "loop" /\ rt.stack # <<>>
    /\ rt' = getPath(rt, rt.stack[Len(rt.stack)])
    /\ UNCHANGED <<data, scene, call, pc, pos, blockCount, lineItems,
                   sceneTreeEntries, treeNodeMap, textResult, strokes, applied,
                   page, prevPage, blocks>>

NextFolders == FolderIndex \/ FolderLoop \/ FolderStep

SpecFolders == InitFolders /\ [][NextFolders]_vars

\* --- Properties of the block scan (specification Spec) ---

LastBlock == blocks[Len(blocks)]

\* C1: parseRmFile throws the too-small error exactly when the buffer has
\* fewer than 43 + 8 = 51 bytes, and then before any block is read; a buffer
\* of 51 bytes or more, whatever its bytes, never throws and comes to return
\* a Page: every step of the scan ends it or moves the cursor on by 8 bytes
\* or more within the buffer, and every step after it adds a stroke or
\* returns the Page.
C1_ThrowsIffTooSmall ==
    /\ [](/\ pc = "thrown" => Len(data) <= 50 /\ blocks = <<>> /\ blockCount = 0
          /\ pc \in {"scan", "compose", "done"} => Len(data) >= 51
          /\ pc = "compose" => Len(strokes) <= Len(lineItems)
          /\ pc = "done" => page # None)
    /\ [][ /\ pc = "start" => pc' = IF Len(data) <= 50 THEN "thrown" ELSE "scan"
           /\ pc = "scan" => \/ pc' = "compose"
                             \/ pc' = "scan" /\ pos' >= pos + 8 /\ pos' <= Len(data)
           /\ pc = "compose" => \/ pc' = "done"
                                \/ pc' = "compose" /\ Len(strokes') = Len(strokes) + 1
           /\ pc = "thrown" => FALSE ]_vars

\* A buffer of 50 bytes has thrown.
C1_Witness == pc = "thrown" /\ Len(data) = 50

\* The Page holds exactly the strokes of the line items and the text block.
PageHolds(p, items, text) ==
    /\ p # None
    /\ IF items = <<>> THEN p[1].layers = <<>>
       ELSE /\ Len(p[1].layers) = 1
            /\ Len(p[1].layers[1].strokes) = Len(items)
            /\ \A i \in 1..Len(items) :
                   /\ p[1].layers[1].strokes[i].penType = items[i].stroke.penType
                   /\ Len(p[1].layers[1].strokes[i].points)
                          = Len(items[i].stroke.points)
    /\ p[1].textBlocks = IF text = None THEN <<>> ELSE <<text[1].textBlock>>

\* C2: a block header whose declared length reaches past the end of the
\* buffer ends the scan without a throw and without touching what the blocks
\* before it produced, and the Page returned is built from exactly that.
C2_TruncatedBlockKeepsDecoded ==
    [][ /\ (Len(blocks') = Len(blocks) + 1 /\ blocks'[Len(blocks')].outcome = "beyond")
           => /\ pc' = "compose"
              /\ lineItems' = lineItems
              /\ sceneTreeEntries' = sceneTreeEntries
              /\ treeNodeMap' = treeNodeMap
              /\ textResult' = textResult
              /\ blockCount' = blockCount
        /\ (pc' = "done" /\ blocks' # <<>> /\ blocks'[Len(blocks')].outcome = "beyond")
           => PageHolds(page', lineItems', textResult') ]_vars

\* A Page with a stroke and a text block was returned after a truncated block.
C2_Witness ==
    /\ pc = "done"
    /\ blocks # <<>> /\ LastBlock.outcome = "beyond"
    /\ Len(blocks) = 3
    /\ Len(page[1].layers) = 1
    /\ Len(page[1].textBlocks) = 1

RECURSIVE FramesBefore(_)
\* The bytes the blocks before the k-th take: the sum of 8 + length.
FramesBefore(k) ==
    IF k <= 1 THEN 0 ELSE FramesBefore(k - 1) + 8 + blocks[k - 1].blockLen

\* C3: the header of the k-th block is read at 43 plus the sum of 8 + length
\* over the blocks before it, and after a dispatched block the cursor is at
\* contentStart + length, whatever the decoder consumed, threw or returned.
C3_CursorAtContentEnd ==
    /\ \A k \in 1..Len(blocks) :
           /\ blocks[k].at = 43 + FramesBefore(k)
           /\ blocks[k].contentStart = blocks[k].at + 8
           /\ blocks[k].contentEnd = blocks[k].contentStart + blocks[k].blockLen
    /\ pc = "scan" => pos = 43 + FramesBefore(Len(blocks) + 1)
    /\ pc = "scan" /\ blocks # <<>> => pos = LastBlock.contentStart + LastBlock.blockLen

\* A block whose decoder read past its region was followed by a block that
\* decoded into a stroke.
C3_Witness ==
    /\ pc = "done"
    /\ scene.names = <<"treeOver", "line">>
    /\ Len(blocks) >= 2
    /\ blocks[2].outcome = "returned" /\ blocks[2].changed
    /\ Len(lineItems) = 1

\* C4 as stated: a block in which any exception was raised, nested sub-blocks
\* included, contributes nothing.
C4_AnyExceptionDropsBlock ==
    \A k \in 1..Len(blocks) :
        (blocks[k].outcome = "threw" \/ blocks[k].nested) => ~blocks[k].changed

\* C4, amended: an exception that leaves a block decoder is caught at the
\* block boundary; the block changes nothing, is counted, and the next
\* header is read at its contentEnd, as after a block of unrecognized type.
C4_EscapedExceptionDropsBlock ==
    /\ \A k \in 1..Len(blocks) :
           blocks[k].outcome = "threw"
           => /\ ~blocks[k].changed
              /\ k < Len(blocks) => blocks[k + 1].at = blocks[k].contentEnd
              /\ (k = Len(blocks) /\ pc = "scan") => pos = blocks[k].contentEnd
    /\ pc = "scan" => blockCount = Len(blocks)

\* A block whose decoder threw was followed by a block that decoded.
C4_Witness ==
    /\ pc = "done"
    /\ Len(blocks) >= 2
    /\ blocks[1].outcome = "threw"
    /\ blocks[2].outcome = "returned" /\ blocks[2].changed
    /\ textResult # None

Resolved == rt # None /\ rt.stage = "resolved"

IndexOf(seq, x) == CHOOSE i \in 1..Len(seq) : seq[i] = x

\* C6: for live single-character items with distinct ids the resolved text
\* does not depend on the order of supply, and for the items of one chain it
\* is the characters in chain order.
C6_TextIndependentOfSupplyOrder ==
    (Resolved /\ scene.deleted = 0)
    => /\ rt.out[1].text = resolveTextContent(scene.canon, <<>>).text
       /\ scene.kind = "chain" => rt.out[1].text = LiveChars(scene.canon)

\* A chain of three whose chain order is neither the order of the ids nor
\* the order of supply has been resolved.
C6_Witness ==
    /\ Resolved /\ scene.kind = "chain" /\ scene.style = "both" /\ scene.deleted = 0
    /\ Len(rt.items) = 3
    /\ LiveChars(scene.canon) = <<99, 97, 98>>
    /\ LiveChars(rt.items) = <<98, 99, 97>>
    /\ rt.out[1].text = <<99, 97, 98>>

\* C7: a deleted item gives no character and no entry of the char-offset
\* map, its placeholder still stands between its neighbours in the sorted
\* ids, and the live characters come out in chain order, adjacent.
C7_DeletedItemKeepsPlace ==
    (Resolved /\ scene.kind = "chain" /\ scene.deleted > 0)
    => /\ rt.out[1].text = LiveChars(scene.canon)
       /\ Len(rt.out[1].text) = Len(scene.canon) - 1
       /\ \A j \in 1..Len(scene.canon) :
              LET it == scene.canon[j] IN
              IF it.deletedLength > 0
              THEN /\ \A t \in 0..(it.deletedLength - 1) :
                          ~MapHas(rt.out[1].charPositions,
                                  <<it.itemId[1], it.itemId[2] + t>>)
                   /\ \E i \in 1..Len(rt.sortedIds) : rt.sortedIds[i] = it.itemId
                   /\ j > 1 => IndexOf(rt.sortedIds, scene.canon[j - 1].itemId)
                                   < IndexOf(rt.sortedIds, it.itemId)
                   /\ j < Len(scene.canon)
                          => IndexOf(rt.sortedIds, it.itemId)
                                 < IndexOf(rt.sortedIds, scene.canon[j + 1].itemId)
              ELSE /\ MapHas(rt.out[1].charPositions, crdtKey(it.itemId))
                   /\ rt.out[1].text[MapGet(rt.out[1].charPositions,
                                            crdtKey(it.itemId)) + 1] = it.value.s[1]

\* A, a deleted item and C, linked through their left neighbours only, have
\* been resolved to the text AC.
C7_Witness ==
    /\ Resolved /\ scene.kind = "chain" /\ scene.style = "left"
    /\ Len(scene.canon) = 3 /\ scene.deleted = 2
    /\ scene.canon[2].deletedLength = 2
    /\ Len(rt.out[1].text) = 2
    /\ rt.out[1].text = <<scene.canon[1].value.s[1], scene.canon[3].value.s[1]>>

\* --- Properties of the tree offsets (specification SpecTree) ---

RECURSIVE ChainOffset(_, _, _)
\* The sum of the anchor origins over the chain of groups from g towards the
\* root, each group counted once, read off the description s of the scene.
ChainOffset(s, g, seen) ==
    IF g = 0 \/ g \in seen THEN [x |-> 0, y |-> 0]
    ELSE LET own == IF s.origin[g] = None THEN <<0, 0>> ELSE s.origin[g]
             rest == IF s.parent[g] = -1 THEN [x |-> 0, y |-> 0]
                     ELSE ChainOffset(s, s.parent[g], seen \cup {g})
         IN  [x |-> own[1] + rest.x, y |-> own[2] + rest.y]

\* C8: the tree offset of every stroke is the sum of anchorOriginX and of
\* anchorOriginY over the chain from its parentId along the SceneTree
\* entries, each node once, wherever the blocks stand in the buffer, and it
\* is what is added to the stroke's points.
C8_TreeOffsetIsChainSum ==
    /\ \A i \in 1..Len(applied) :
           /\ applied[i].treeOffset = ChainOffset(scene, scene.strokeParent, {})
           /\ \A j \in 1..Len(strokes[i].points) :
                  IF applied[i].treeOffset = [x |-> 0, y |-> 0]
                  THEN strokes[i].points[j] = lineItems[i].stroke.points[j]
                  ELSE /\ strokes[i].points[j].x
                              = lineItems[i].stroke.points[j].x
                                + applied[i].treeOffset.x
                       /\ strokes[i].points[j].y
                              = SubPx(lineItems[i].stroke.points[j].y
                                      + applied[i].treeOffset.y)
    /\ pc = "done" => /\ Len(applied) = 1
                      /\ page[1].layers[1].strokes = strokes

\* The chain groupB(0,5) -> groupA(10,0) -> root, its blocks standing after
\* the LineItem block, has given the stroke the offset (10, 5).
C8_Witness ==
    /\ pc = "done"
    /\ scene.parent = <<0, 1>> /\ scene.origin = << <<10, 0>>, <<0, 5>> >>
    /\ scene.strokeParent = 2 /\ scene.lineFirst
    /\ applied[1].treeOffset = [x |-> 10, y |-> 5]
    /\ page[1].layers[1].strokes[1].points[1].x = 11

\* --- Properties of the text anchors (specification SpecAnchor) ---

\* The line height of a recorded style (0 for none), in 1/514 px.
LineHeightOf(st) == IF st = 2 THEN 26 * 1404 ELSE 23 * 1404

RECURSIVE HeightsThrough(_, _, _)
\* The line heights of the paragraphs of the scene s that start at or before
\* offset k, from paragraph p on.
HeightsThrough(s, k, p) ==
    IF p > Len(s.shape) \/ ParStart(s.shape, p) > k THEN 0
    ELSE LineHeightOf(s.style[p]) + HeightsThrough(s, k, p + 1)

Anchored == applied # <<>> /\ textResult # None

\* C9 as stated: an anchor at offset 0 gives posY alone.
C9_AnchorAtZeroIsBaseY ==
    (Anchored /\ scene.k = 0) => applied[1].anchorY = SubPx(scene.posY)

\* C9, amended: an anchor at offset 0 gives posY plus the line height of the
\* first paragraph, by the style recorded at offset 0 (plain when none is).
C9_AnchorAtZeroAddsFirstLine ==
    (Anchored /\ scene.k = 0)
    => /\ applied[1].anchorY = SubPx(scene.posY) + LineHeightOf(scene.style[1])
       /\ strokes[1].points[1].y = SubPx(2) + applied[1].anchorY

\* A stroke whose parent group is anchored at offset 0 of a text with a
\* heading first paragraph has been moved by posY and the heading's height.
C9_Witness ==
    /\ pc = "done" /\ Anchored
    /\ scene.k = 0 /\ scene.onParent /\ scene.posY = 100
    /\ scene.style[1] = 2
    /\ applied[1].anchorY = SubPx(100) + 26 * 1404

\* C10: the anchor Y of offset k is posY plus the line heights of the
\* paragraphs from the first through the one that contains k, each by the
\* style recorded at its start (plain when none is), and it never decreases
\* as k grows.
C10_AnchorYSumsParagraphs ==
    Anchored
    => /\ applied[1].anchorY = SubPx(scene.posY) + HeightsThrough(scene, scene.k, 1)
       /\ strokes[1].points[1].y = SubPx(2) + applied[1].anchorY
       /\ \A k1, k2 \in 0..(TextLen(scene.shape) - 1) :
              k1 <= k2 => computeAnchorYOffset(textResult[1].textBlock, k1)
                              <= computeAnchorYOffset(textResult[1].textBlock, k2)

\* An anchor at offset 12 of a text whose first paragraph has 11 characters
\* has given the heights of both paragraphs.
C10_Witness ==
    /\ pc = "done" /\ Anchored
    /\ scene.shape = <<11, 3>> /\ scene.k = 12
    /\ scene.style = <<2, 3>> /\ scene.posY = 234
    /\ applied[1].anchorY = SubPx(234) + 26 * 1404 + 23 * 1404

\* --- Properties of the returned Page (specification Spec) ---

\* The x of the first point of the stroke a block of the catalogue encodes.
FirstX == [line |-> 1, lineShort |-> 7]

\* The blocks of the buffer that encode a stroke with a point, in the order
\* of the buffer, and those that encode a text.
StrokeNames == SelectSeq(scene.names, LAMBDA n : n \in DOMAIN FirstX)
TextNames == SelectSeq(scene.names, LAMBDA n : n \in {"text", "textNested"})

\* C13: a returned Page is 1404 wide and 1872 high; it has no layer when no
\* stroke was retained and otherwise one layer of the empty name with the
\* retained strokes in the order of their LineItem blocks, each of one point
\* or more; it has one text block at most, and none when no text decoded.
C13_PageShape ==
    pc = "done"
    => /\ page[1].width = 1404 /\ page[1].height = 1872
       /\ Len(page[1].textBlocks) <= 1
       /\ page[1].textBlocks = <<>> <=> TextNames = <<>>
       /\ IF StrokeNames = <<>> THEN page[1].layers = <<>>
          ELSE /\ Len(page[1].layers) = 1
               /\ page[1].layers[1].name = <<>>
               /\ Len(page[1].layers[1].strokes) = Len(StrokeNames)
               /\ \A i \in 1..Len(StrokeNames) :
                      /\ Len(page[1].layers[1].strokes[i].points) >= 1
                      /\ page[1].layers[1].strokes[i].points[1].x
                             - applied[i].totalX = FirstX[StrokeNames[i]]

\* Two strokes have come back in the order of their blocks.
C13_Witness ==
    /\ pc = "done"
    /\ scene.names = <<"lineShort", "line">>
    /\ Len(page[1].layers) = 1
    /\ page[1].layers[1].strokes[1].points[1].x = 7
    /\ page[1].layers[1].strokes[2].points[1].x = 1

\* A LineItem block of no point has come back as a Page of no layer.
C13_WitnessEmpty ==
    /\ pc = "done"
    /\ scene.names = <<"lineEmpty">>
    /\ blocks[1].outcome = "returned"
    /\ page[1].layers = <<>>

\* --- Properties of the point lists (specification SpecPoints) ---

\* The bytes of the point list of the buffer.
PointListLength == 14 * Len(scene.choice) + scene.trailing

\* The points the point list was encoded from.
EncodedPoints == [j \in 1..Len(scene.choice) |-> WirePoints[scene.choice[j]].pt]

\* C11: a point list of L bytes decodes to floor(L / 14) points in wire
\* order, each with the six fields of its 14-byte record, whatever bytes
\* follow the last whole record; and the stroke the Page holds has exactly
\* the encoded points when its total offset is (0, 0).
C11_PointsRoundTrip ==
    /\ pc \in {"compose", "done"}
       => /\ Len(lineItems) = (IF Len(scene.choice) = 0 THEN 0 ELSE 1)
          /\ \A i \in 1..Len(lineItems) :
                 /\ Len(lineItems[i].stroke.points) = PointListLength \div 14
                 /\ lineItems[i].stroke.points = EncodedPoints
    /\ \A i \in 1..Len(applied) :
           (applied[i].totalX = 0 /\ applied[i].totalY = 0)
           => strokes[i].points = EncodedPoints
    /\ (pc = "done" /\ Len(scene.choice) > 0 /\ scene.origin \in {None, <<0, 0>>})
       => page[1].layers[1].strokes[1].points = EncodedPoints

\* A point list of 2 * 14 + 13 bytes that holds 1.5 and the negative zero
\* has come back as its two points.
C11_Witness ==
    /\ pc = "done"
    /\ scene.choice = <<2, 1>> /\ scene.trailing = 13 /\ scene.origin = None
    /\ Len(page[1].layers[1].strokes[1].points) = 2
    /\ page[1].layers[1].strokes[1].points[1].x = [f32 |-> <<0, 0, 192, 63>>]
    /\ page[1].layers[1].strokes[1].points[2].x = 1

\* --- Properties of two buffers (specification SpecPair) ---

SortedIds == {rt.items[i].itemId : i \in 1..Len(rt.items)}

\* <<a, b>>: the item a has to come after the item b, which its leftId
\* names or whose rightId names it.
MustFollow ==
    {<<rt.items[i].itemId, rt.items[i].leftId>> : i \in 1..Len(rt.items)}
    \cup {<<rt.items[i].rightId, rt.items[i].itemId>> : i \in 1..Len(rt.items)}

\* The end marker (0, 0) and an id no item has constrain nothing.
Constraints ==
    {c \in MustFollow : c[1] \in SortedIds /\ c[2] \in SortedIds
                        /\ c[1] # <<0, 0>> /\ c[2] # <<0, 0>>}

\* The pairs joined by a path of k + 1 of the edges or fewer.
RECURSIVE PathsWithin(_, _)
PathsWithin(edges, k) ==
    IF k = 0 THEN edges
    ELSE Let(PathsWithin(edges, k - 1), LAMBDA paths :
             paths \cup {<<x[1][1], x[2][2]>> :
                            x \in {y \in paths \X edges : y[1][2] = y[2][1]}})

\* <<a, b>>: a comes after b by a chain of constraints.
Follows == PathsWithin(Constraints, Len(rt.items))

Acyclic == \A id \in SortedIds : <<id, id>> \notin Follows

\* The items on a cycle of constraints, and those that follow one of them.
Stuck ==
    Let(Follows, LAMBDA paths :
        {id \in SortedIds :
            \/ <<id, id>> \in paths
            \/ \E on \in SortedIds : <<on, on>> \in paths /\ <<id, on>> \in paths})

\* C14: when the items have distinct ids and their constraints have no
\* cycle, toposortItems returns every id once, each after the item its
\* leftId names and before the item its rightId names when these are among
\* the items; the sort done round by round returns what toposortItems
\* returns.
C14_AcyclicSortKeepsLinks ==
    rt.stage = "sorted"
    => /\ rt.result = toposortItems(rt.items)
       /\ Acyclic
          => /\ Len(rt.result) = Len(rt.items)
             /\ Range(rt.result) = SortedIds
             /\ \A c \in Constraints :
                    IndexOf(rt.result, c[2]) < IndexOf(rt.result, c[1])

\* An item inserted between the first and the second item of a chain of
\* three has come out between them, against the order of the ids.
C14_Witness ==
    /\ rt.stage = "sorted"
    /\ scene.kind = "inserts" /\ scene.k = 3 /\ scene.gaps = <<1>> /\ scene.back = 0
    /\ rt.result = <<IdOf(1), IdOf(4), IdOf(2), IdOf(3)>>

\* C15: toposortItems comes to an end on every item set, cyclic or
\* self-referring ones included: a round ends the sort or takes one node or
\* more out of the graph, so that there are no more rounds than nodes; no
\* id is emitted twice; and the items missing from the result are those on
\* a cycle of constraints and those that follow one.
C15_SortEndsOnCycles ==
    /\ [](/\ rt.stage = "rounds"
             => /\ Len(rt.graph) >= 1
                /\ rt.round + Len(rt.graph) <= Len(rt.items) + 2
          /\ rt.stage \in {"rounds", "sorted"}
             => /\ \A i, j \in 1..Len(rt.result) : i # j => rt.result[i] # rt.result[j]
                /\ Range(rt.result) \subseteq SortedIds \ Stuck
          /\ rt.stage = "sorted" => Range(rt.result) = SortedIds \ Stuck)
    /\ [][rt.stage = "rounds"
          => \/ rt'.stage = "sorted" /\ rt'.result = rt.result
             \/ rt'.stage = "rounds" /\ Len(rt'.graph) < Len(rt.graph)]_vars

\* The second item of a chain of three names the third as its left
\* neighbour: the first item alone has come out; the cycle and the item
\* inserted after it are missing.
C15_Witness ==
    /\ rt.stage = "sorted"
    /\ scene.kind = "inserts" /\ scene.k = 3 /\ scene.gaps = <<3>> /\ scene.back = 2
    /\ rt.result = <<IdOf(1)>>
    /\ Stuck = {IdOf(2), IdOf(3), IdOf(4)}

\* a is before b in the order of CrdtIds: author first, clock second.
IdLess(a, b) == a[1] < b[1] \/ (a[1] = b[1] /\ a[2] < b[2])

Ascending(seg) == \A i \in 1..(Len(seg) - 1) : IdLess(seg[i], seg[i + 1])

\* The items not yet emitted all of whose constraints name emitted items.
ReadyNow ==
    {id \in SortedIds \ Range(rt.result) :
        \A c \in Constraints : c[1] = id => c[2] \in Range(rt.result)}

\* What a round has added to the result.
Emitted == SubSeq(rt'.result, Len(rt.result) + 1, Len(rt'.result))

\* C16: the items ready in the same round are emitted in ascending CrdtId
\* order, author first and clock second, after the items of the rounds
\* before and before those of the rounds after; the first round takes the
\* start anchor out and emits nothing.
C16_RoundEmitsAscending ==
    [][(rt.stage = "rounds" /\ rt'.stage = "rounds")
       => /\ rt'.result = rt.result \o Emitted
          /\ Ascending(Emitted)
          /\ Range(Emitted) = (IF rt.round = 0 THEN {} ELSE ReadyNow)]_vars

\* Two items inserted into the same gap of a chain of two have come out
\* between its items, the author 1 before the author 2 though its clock is
\* the greater.
C16_Witness ==
    /\ rt.stage = "sorted"
    /\ scene.kind = "inserts" /\ scene.k = 2 /\ scene.gaps = <<1, 1>> /\ scene.back = 0
    /\ rt.result = <<IdOf(1), IdOf(4), IdOf(3), IdOf(2)>>
    /\ IdOf(4)[2] > IdOf(3)[2]

\* --- Properties of the text resolution (specification SpecStyle) ---

\* The index in the text of the first id of the item at p.
RECURSIVE PieceStart(_, _)
PieceStart(kinds, p) ==
    IF p = 1 THEN 1 ELSE PieceStart(kinds, p - 1) + PieceLen(kinds[p - 1])

\* The characters of the text that are neither deleted nor markers.
RECURSIVE LiveText(_, _)
LiveText(kinds, p) ==
    IF p > Len(kinds) THEN <<>>
    ELSE PieceChars(kinds[p], p) \o LiveText(kinds, p + 1)

\* The characters that stand before the item at p.
RECURSIVE LiveBefore(_, _)
LiveBefore(kinds, p) ==
    IF p = 1 THEN 0
    ELSE LiveBefore(kinds, p - 1) + Len(PieceChars(kinds[p - 1], p - 1))

Marks == {p \in 1..Len(scene.kinds) : scene.kinds[p] = "mark"}

\* C17 as the specification states it: a format marker adds no text and
\* its id maps to the offset reached at its position.
C17_MarkerRecordsOffset ==
    Resolved
    => /\ rt.out[1].text = LiveText(scene.kinds, 1)
       /\ \A p \in Marks :
              /\ MapHas(rt.out[1].charPositions, crdtKey(IdOf(p)))
              /\ MapGet(rt.out[1].charPositions, crdtKey(IdOf(p)))
                     = LiveBefore(scene.kinds, p)

\* C17, amended: a format marker adds no text and its id gets no entry in
\* the char-offset map, so that a formatting entry that names it adds
\* nothing to paragraphStyles.
C17_MarkerRecordsNothing ==
    Resolved
    => /\ rt.out[1].text = LiveText(scene.kinds, 1)
       /\ \A p \in Marks : ~MapHas(rt.out[1].charPositions, crdtKey(IdOf(p)))
       /\ (\A e \in 1..Len(rt.formats) :
               \E p \in Marks : rt.formats[e].charId = IdOf(p))
          => rt.out[1].paragraphStyles = <<>>

\* A marker between one character and two, and a formatting entry that
\* names it, have been resolved.
C17_Witness ==
    /\ Resolved
    /\ scene.kinds = <<"live1", "mark", "live2">> /\ scene.targets = <<2>>
    /\ rt.formats[1].charId = IdOf(2)
    /\ Len(rt.out[1].text) = 3
    /\ Len(rt.out[1].charPositions) = 3

\* The item that holds the t-th id of the text.
PieceAt(kinds, t) ==
    CHOOSE p \in 1..Len(kinds) :
        PieceStart(kinds, p) <= t /\ t < PieceStart(kinds, p) + PieceLen(kinds[p])

\* The offset in the resolved text of the t-th id when it is the id of a
\* live character, -1 when it is not.
LiveOffset(kinds, t) ==
    Let(PieceAt(kinds, t), LAMBDA p :
        IF kinds[p] \in {"live1", "live2"}
        THEN LiveBefore(kinds, p) + (t - PieceStart(kinds, p))
        ELSE -1)

\* The key of paragraphStyles a formatting entry of target t sets: 0 for
\* the end marker, one more than the offset of a live character, -1 when it
\* sets none.
StyleKey(kinds, t) ==
    IF t = 0 THEN 0
    ELSE IF t > Len(PieceIds(kinds, 1)) THEN -1
    ELSE IF LiveOffset(kinds, t) = -1 THEN -1
    ELSE LiveOffset(kinds, t) + 1

\* The format code of the last entry that sets the key k.
LastCodeAt(kinds, targets, k) ==
    CHOOSE e \in 1..Len(targets) :
        /\ StyleKey(kinds, targets[e]) = k
        /\ \A later \in (e + 1)..Len(targets) : StyleKey(kinds, targets[later]) # k

\* C18: a formatting entry whose charId is (0, 0) sets the style at offset
\* 0; one whose charId is in the char-offset map at offset p sets it at
\* p + 1; one whose charId is not in the map sets nothing; so every key of
\* paragraphStyles is 0 or one more than the offset of a live character.
C18_StyleAtNextOffset ==
    Resolved
    => /\ \A e \in 1..Len(rt.formats) :
              Let(crdtKey(rt.formats[e].charId), LAMBDA key :
                  /\ key = <<0, 0>> => MapHas(rt.out[1].paragraphStyles, 0)
                  /\ (key # <<0, 0>> /\ MapHas(rt.out[1].charPositions, key))
                     => MapHas(rt.out[1].paragraphStyles,
                               MapGet(rt.out[1].charPositions, key) + 1))
       /\ {rt.out[1].paragraphStyles[i][1] : i \in 1..Len(rt.out[1].paragraphStyles)}
              = {StyleKey(scene.kinds, scene.targets[e]) : e \in 1..Len(scene.targets)}
                    \ {-1}
       /\ \A i \in 1..Len(rt.out[1].paragraphStyles) :
              /\ rt.out[1].paragraphStyles[i][1] \in 0..Len(rt.out[1].text)
              /\ rt.out[1].paragraphStyles[i][2]
                     = LastCodeAt(scene.kinds, scene.targets,
                                  rt.out[1].paragraphStyles[i][1])
              /\ \A j \in 1..Len(rt.out[1].paragraphStyles) :
                     i # j => rt.out[1].paragraphStyles[i][1]
                                  # rt.out[1].paragraphStyles[j][1]

\* Of two formatting entries the first names the end marker and the second
\* the second character of the text, which stands after a deleted run.
C18_Witness ==
    /\ Resolved
    /\ scene.kinds = <<"gone2", "live2">> /\ scene.targets = <<0, 4>>
    /\ rt.out[1].paragraphStyles = <<<<0, 1>>, <<2, 2>>>>

\* A formatting entry that names a deleted character has set nothing.
C18_WitnessDropped ==
    /\ Resolved
    /\ scene.kinds = <<"live1", "gone1">> /\ scene.targets = <<2>>
    /\ rt.out[1].paragraphStyles = <<>>

\* --- Properties of the expansion (specification SpecExpand) ---

\* The n items of ex have the ids counted up from the id of item, the first
\* keeps its leftId and the last its rightId, and each other neighbour is
\* the item before or after.
Chained(ex, item, n) ==
    /\ Len(ex) = n
    /\ \A i \in 1..n :
           /\ ex[i].itemId = <<item.itemId[1], item.itemId[2] + (i - 1)>>
           /\ ex[i].leftId = (IF i = 1 THEN item.leftId ELSE ex[i - 1].itemId)
           /\ ex[i].rightId = (IF i = n THEN item.rightId ELSE ex[i + 1].itemId)

\* C19: an item of n >= 1 code points that is not deleted expands to n
\* singletons chained from its leftId to its rightId under the ids counted
\* up from its own, each with one code point; an item of deletedLength
\* d > 0 expands to d empty placeholders chained the same way; a format
\* marker that is not deleted is returned as it is.
C19_ExpansionChains ==
    rt.stage # "items"
    => Let(rt.items[1], LAMBDA item :
           /\ (item.deletedLength = 0 /\ ~item.value.isNum /\ scene.n >= 1)
              => /\ Chained(rt.expanded, item, scene.n)
                 /\ \A i \in 1..scene.n :
                        /\ rt.expanded[i].value = Str(<<item.value.s[i]>>)
                        /\ rt.expanded[i].deletedLength = 0
           /\ item.deletedLength > 0
              => /\ Chained(rt.expanded, item, item.deletedLength)
                 /\ \A i \in 1..item.deletedLength :
                        /\ rt.expanded[i].value = Str(<<>>)
                        /\ rt.expanded[i].deletedLength > 0
           /\ (item.deletedLength = 0 /\ item.value.isNum)
              => rt.expanded = <<item>>)

\* An item of three characters between two neighbours has been expanded.
C19_Witness ==
    /\ rt.stage = "expanded"
    /\ scene.n = 3 /\ scene.d = 0
    /\ rt.items[1].itemId = <<1, 16>>
    /\ rt.items[1].leftId = <<1, 5>> /\ rt.items[1].rightId = <<2, 7>>
    /\ rt.expanded[2].itemId = <<1, 17>>
    /\ rt.expanded[2].leftId = <<1, 16>> /\ rt.expanded[2].rightId = <<1, 18>>
    /\ rt.expanded[3].rightId = <<2, 7>>

\* A deleted run of two has been expanded to two placeholders.
C19_WitnessDeleted ==
    /\ rt.stage = "expanded"
    /\ scene.d = 2 /\ scene.n = 0 /\ ~scene.mark
    /\ Len(rt.expanded) = 2
    /\ rt.expanded[1].rightId = rt.expanded[2].itemId

\* --- Properties of deleted LineItem blocks (specification SpecDeleted) ---

\* The x of the first point of every stroke of the Page.
PageXs ==
    IF page[1].layers = <<>> THEN <<>>
    ELSE [i \in 1..Len(page[1].layers[1].strokes) |->
             page[1].layers[1].strokes[i].points[1].x]

ShapeXs(shapes) == [i \in 1..Len(shapes) |-> shapes[i].x]

\* C20: a LineItem block in which field 5 is present and not zero yields no
\* stroke, wherever field 5 stands relative to the value sub-block of
\* field 6: the strokes of the Page are those of the other blocks.
C20_DeletedYieldsNoStroke ==
    pc = "done"
    => PageXs = ShapeXs(SelectSeq(scene.shapes,
                                  LAMBDA s : s.place = "none" \/ s.d = 0))

\* What the decoder does: the deletedLength counts when field 5 stands
\* before the value sub-block, at which parseLineItemBlock returns.
C20_DeletedBeforeValueYieldsNoStroke ==
    pc = "done"
    => PageXs = ShapeXs(SelectSeq(scene.shapes,
                                  LAMBDA s : s.place # "before" \/ s.d = 0))

\* A block whose field 5 holds 1 and stands after field 6 has come back as
\* a stroke.
C20_Witness ==
    /\ pc = "done"
    /\ scene.shapes = <<[place |-> "after", d |-> 1, x |-> 7]>>
    /\ blocks[1].outcome = "returned"
    /\ PageXs = <<7>>

\* --- Properties of a chain of anchored groups (specification SpecNearest) ---

RECURSIVE NearestGroup(_, _)
\* The first group with an anchorId on the chain of the scene s that starts
\* at the group g, or 0 when there is none.
NearestGroup(s, g) ==
    IF g = 0 THEN 0
    ELSE IF s.anchor[g] # "none" THEN g
    ELSE NearestGroup(s, g - 1)

\* C21: the anchor offset of a stroke is decided by the first node with an
\* anchorId on the chain that starts at the stroke's parent: computed from
\* the character offset when the id is in the char-offset map, and 0 when
\* it is not, when no node of the chain has an anchorId, or when the page
\* has no text block; nodes further up the chain are not consulted.
C21_NearestAnchorDecides ==
    applied # <<>>
    => LET g == NearestGroup(scene, scene.strokeParent)
       IN  /\ applied[1].anchorY =
                  IF scene.text = "text" /\ g # 0
                     /\ scene.anchor[g] \in {"first", "second"}
                  THEN SubPx(scene.posY)
                       + HeightsThrough(scene, AnchorOffset(scene.anchor[g]), 1)
                  ELSE 0
           /\ applied[1].anchorY # 0
              => strokes[1].points[1].y = SubPx(2) + applied[1].anchorY

\* A stroke under a group whose anchorId no character has, itself under a
\* group anchored in the second paragraph, has got the offset 0.
C21_Witness ==
    /\ pc = "done" /\ textResult # None
    /\ scene.text = "text" /\ scene.strokeParent = 2
    /\ scene.anchor = <<"second", "absent">>
    /\ applied[1].anchorY = 0

\* A stroke under a group without anchorId, itself under a group anchored in
\* the second paragraph, has got the heights of both paragraphs.
C21_WitnessParent ==
    /\ pc = "done" /\ textResult # None
    /\ scene.strokeParent = 2
    /\ scene.anchor = <<"second", "none">>
    /\ applied[1].anchorY = SubPx(100) + 26 * 1404 + 23 * 1404

\* --- Properties of the ancestor walks (specification SpecLoop) ---

\* The group a node key stands for.
GroupOf(key) == key[2] - GroupId(0)[2]

NoRepeat(t) == \A a, b \in 1..Len(t) : a # b => t[a] # t[b]

RECURSIVE OriginSum(_, _)
\* The sum of the anchor origins (coordinate c) of the nodes of the trail t.
OriginSum(t, c) ==
    IF t = <<>> THEN 0 ELSE LoopOrigin(GroupOf(Head(t)))[c] + OriginSum(Tail(t), c)

\* The trail t of a walk of the scene s is a chain of parent links from the
\* stroke's parent without a repeated node, no longer than the entries of
\* the tree and one more, and it ends where the walk must stop: at the root,
\* at a node without entry, before a node already visited or, for the
\* anchor walk, at the anchored node.
WalkEnds(s, t, anchorWalk) ==
    /\ NoRepeat(t)
    /\ Len(t) <= Cardinality({g \in 1..MaxLoop : s.parent[g] # -1}) + 1
    /\ IF t = <<>> THEN s.strokeParent = 0
       ELSE /\ t[1] = GroupId(s.strokeParent)
            /\ \A k \in 1..(Len(t) - 1) :
                   /\ s.parent[GroupOf(t[k])] # -1
                   /\ t[k + 1] = ParentId(s.parent[GroupOf(t[k])])
                   /\ anchorWalk => s.anchored # GroupOf(t[k])
            /\ LET g == GroupOf(t[Len(t)])
               IN  \/ s.parent[g] \in {-1, 0}
                   \/ \E k \in 1..Len(t) : t[k] = ParentId(s.parent[g])
                   \/ anchorWalk /\ s.anchored = g

\* C22: both ancestor walks end for every scene tree, cyclic ones included:
\* a walk stops at the root, at a node without SceneTree entry or at the
\* first node already visited, it visits no more nodes than there are
\* entries plus one, and every node's anchor origin is added to the offset
\* at most once.
C22_WalksEnd ==
    /\ \A i \in 1..Len(applied) :
           /\ WalkEnds(scene, applied[i].treeTrail, FALSE)
           /\ applied[i].treeOffset = [x |-> OriginSum(applied[i].treeTrail, 1),
                                       y |-> OriginSum(applied[i].treeTrail, 2)]
           /\ IF scene.text THEN WalkEnds(scene, applied[i].anchorTrail, TRUE)
              ELSE applied[i].anchorTrail = <<>>
    /\ pc = "done" => Len(applied) = 1

\* Two groups that are each other's parent: both walks from the second have
\* visited the second and the first and stopped, with both origins added.
C22_Witness ==
    /\ pc = "done" /\ textResult # None
    /\ scene.parent = <<2, 1>> /\ scene.strokeParent = 2 /\ scene.anchored = 0
    /\ applied[1].treeTrail = <<GroupId(2), GroupId(1)>>
    /\ applied[1].anchorTrail = <<GroupId(2), GroupId(1)>>
    /\ applied[1].treeOffset = [x |-> 3, y |-> 9]

\* A group that is its own parent: the walks have visited it once.
C22_WitnessSelf ==
    /\ pc = "done" /\ textResult # None
    /\ scene.parent[1] = 1 /\ scene.strokeParent = 1 /\ scene.anchored = 0
    /\ applied[1].treeTrail = <<GroupId(1)>>
    /\ applied[1].anchorTrail = <<GroupId(1)>>
    /\ applied[1].treeOffset = [x |-> 1, y |-> 3]

\* --- Properties of the line heights (specification SpecAnchor) ---

\* The style code the compositor takes for a paragraph of recorded style st
\* (0: none recorded).
StyleOf(st) == IF st = 0 THEN STYLE_PLAIN ELSE st

NamedStyles == {STYLE_PLAIN, STYLE_HEADING, STYLE_BOLD}

\* The height the first paragraph has contributed to the offset of a stroke
\* anchored at offset 0.
FirstLineHeight == applied[1].anchorY - SubPx(scene.posY)

\* C23 as stated: the line height is a fixed value per style code, and the
\* heading, bold and plain codes have three pairwise distinct heights.
C23_StyleHeightsDistinct ==
    (Anchored /\ scene.k = 0)
    => /\ FirstLineHeight = getLineHeightPx(StyleOf(scene.style[1]))
       /\ \A other \in NamedStyles \ {StyleOf(scene.style[1])} :
              FirstLineHeight # getLineHeightPx(other)

\* C23, amended: the line height is a fixed value per style code; the
\* heading code gives 26 pt, and the bold code gives the same 23 pt as the
\* plain code, so that only the heading height differs from the other two.
C23_HeadingAloneDiffers ==
    (Anchored /\ scene.k = 0)
    => /\ FirstLineHeight = getLineHeightPx(StyleOf(scene.style[1]))
       /\ FirstLineHeight = IF scene.style[1] = STYLE_HEADING
                            THEN 26 * RM_WIDTH_PX ELSE 23 * RM_WIDTH_PX
       /\ \A other \in NamedStyles :
              FirstLineHeight = getLineHeightPx(other)
              <=> (other = STYLE_HEADING <=> scene.style[1] = STYLE_HEADING)

\* A stroke anchored in a bold first paragraph has been moved by the height
\* a plain paragraph has.
C23_Witness ==
    /\ pc = "done" /\ Anchored
    /\ scene.k = 0 /\ scene.style[1] = STYLE_BOLD
    /\ FirstLineHeight = 23 * RM_WIDTH_PX
    /\ FirstLineHeight = getLineHeightPx(STYLE_PLAIN)

\* --- Properties of skipped fields (specification SpecSkip) ---

\* The bytes the wire type of the field sh implies after its tag.
ImpliedBytes(sh) ==
    CASE sh.wire = TAG_BYTE1 -> 1
      [] sh.wire = TAG_BYTE4 -> 4
      [] sh.wire = TAG_BYTE8 -> 8
      [] sh.wire = TAG_LENGTH4 -> 4 + sh.n
      [] OTHER -> 1 + (sh.n + 1)

\* The cursor of the top-level reader at the value of the field.
AtSkipValue == [off |-> 0, len |-> Len(data), pos |-> scene.valueStart]

\* C24: skipping a field moves the cursor by the bytes its wire type
\* implies (1, 4, 8, 4 + n for Length4 with prefix n, 1 + one varint for
\* CrdtId), and a block decoder that meets a field of unknown index skips it
\* so and decodes the fields after it as if it were absent: the page is
\* that of the buffer without the field.
C24_SkipIsExact ==
    /\ call = 1
       => LET after == skipTagValue(AtSkipValue,
                                    [index |-> scene.field.index,
                                     type |-> scene.field.wire])
          IN  /\ after.ok
              /\ after.r.pos = scene.valueStart + ImpliedBytes(scene.field)
    /\ (pc = "done" /\ call > 1) => page = prevPage

\* A CrdtId field of unknown index with a varint of two bytes, standing
\* between the first and the second field of the TreeNode block, has been
\* skipped: the page with it has the stroke moved by the group's origin and
\* anchor, as the page without it.
C24_Witness ==
    /\ pc = "done" /\ call = 2
    /\ scene.block = 4 /\ scene.at = 3
    /\ scene.field.wire = TAG_ID /\ scene.field.n = 1 /\ scene.field.fill = 31
    /\ prevPage = page
    /\ Len(page[1].layers[1].strokes) = 1
    /\ page[1].layers[1].strokes[1].points[1].x = 1 + 10
    /\ page[1].textBlocks # <<>>

\* --- Properties of the cursor (specification SpecCursor) ---

\* C25: after any sequence of reads, skips and seeks the position of a
\* cursor lies between 0 and the length of its region, so that remaining()
\* is never negative: an operation that would carry the cursor across the
\* end of the region fails with the EOF error.
C25_CursorStaysInRegion ==
    pc = "cursor"
    => /\ 0 <= tell(rt.r) /\ tell(rt.r) <= rt.r.len
       /\ remaining(rt.r) >= 0

\* What does hold: a read leaves the cursor inside its region, and one that
\* lacks the bytes it asks for throws EOF.
C25_ReadsStayInRegion ==
    (pc = "cursor" /\ rt.op \in ReadOps)
    => /\ 0 <= tell(rt.r) /\ tell(rt.r) <= rt.r.len
       /\ rt.error \in {"", "EOF"}

\* A Byte8 field has been skipped on a cursor with fewer than 8 bytes left:
\* no error, and the cursor stands beyond the end of its region.
C25_Witness ==
    /\ pc = "cursor" /\ rt.op = "skipByte8" /\ rt.error = ""
    /\ tell(rt.r) > rt.r.len
    /\ remaining(rt.r) < 0

\* --- Properties of nested sub-blocks (specification SpecReach) ---

\* C26: while a block is decoded no byte outside its declared content
\* region is read, a nested length prefix larger than the bytes left in the
\* block notwithstanding: the page does not depend on the content of the
\* blocks that follow, when these are of a type no decoder knows.
C26_FollowingBytesUnread ==
    (pc = "done" /\ call > 1) => page = prevPage

\* What does hold: a sub-block that ends inside its block keeps the page
\* clear of the bytes that follow the block.
C26_HonestLengthConfines ==
    (pc = "done" /\ call > 1 /\ scene.extra = 0) => page = prevPage

\* The sub-block of a SceneTree block was declared 11 bytes longer than the
\* block: the parentId was read from the content of the block that follows,
\* and the stroke moved by the origin of that parent until the content of
\* the following block changed.
C26_Witness ==
    /\ pc = "done" /\ call = 2
    /\ scene.victim = "tree" /\ scene.extra = 11
    /\ Len(sceneTreeEntries) = 1
    /\ sceneTreeEntries[1].parentId = <<1, 78>>
    /\ prevPage[1].layers[1].strokes[1].points[1].x = 1 + 10
    /\ page[1].layers[1].strokes[1].points[1].x = 1

\* --- Properties of the scan's progress (specification Spec) ---

\* C27: the block scan ends on every buffer. An iteration ends the scan or
\* moves the cursor on by the 8 header bytes at least and counts one block;
\* the headers are read at strictly increasing positions, the cursor never
\* passes the end of the buffer, and no more than (byteLength - 43) / 8
\* blocks are counted.
C27_ScanEnds ==
    /\ [](pc \in {"scan", "compose", "done"}
          => /\ 43 <= pos /\ pos <= Len(data)
             /\ blockCount * 8 <= Len(data) - 43
             /\ blockCount * 8 <= pos - 43
             /\ \A k \in 1..(Len(blocks) - 1) : blocks[k + 1].at >= blocks[k].at + 8)
    /\ [][pc = "scan"
          => \/ pc' = "compose" /\ blockCount' = blockCount
             \/ /\ pc' = "scan"
                /\ pos' >= pos + 8
                /\ blockCount' = blockCount + 1]_vars

\* A buffer of 43 + 16 bytes with two blocks of no content: two blocks were
\* counted, as many as the buffer has room for.
C27_Witness ==
    /\ pc = "done" /\ Len(data) = 43 + 16
    /\ blockCount = 2 /\ pos = Len(data)
    /\ blocks[1].at = 43 /\ blocks[2].at = 51

\* --- Properties of several RootText blocks (specification SpecTexts) ---

RECURSIVE LastReturned(_, _)
\* The last of the first n RootText blocks of nonzero length whose decoder
\* returns, or 0 when there is none.
LastReturned(kinds, n) ==
    IF n = 0 THEN 0
    ELSE IF kinds[n] \notin {"bad", "zero"} THEN n
    ELSE LastReturned(kinds, n - 1)

\* The anchor offset of the shared anchor against the text of that name.
AnchorYIn(kind) ==
    CASE kind = "one" -> SubPx(100) + 23 * RM_WIDTH_PX
      [] kind = "two" -> SubPx(200) + 2 * 23 * RM_WIDTH_PX
      [] OTHER -> 0

\* C28: of several RootText blocks the last one of nonzero length whose
\* decoder returned gives the text of the Page: textBlocks holds its text
\* block, or nothing when its text is blank, whatever an earlier block gave;
\* a block whose decoder throws leaves the result as it was; and the
\* stroke's anchor is resolved against the char-offset map of that block.
C28_LastTextDecides ==
    /\ \A k \in 1..Len(blocks) :
           (blocks[k].blockType = BLOCK_ROOT_TEXT
            /\ (blocks[k].outcome = "threw" \/ blocks[k].blockLen = 0))
           => ~blocks[k].changed
    /\ pc = "done"
       => LET n == LastReturned(scene.kinds, Len(scene.kinds))
              kind == IF n = 0 THEN "blank" ELSE scene.kinds[n]
          IN  /\ Len(page[1].textBlocks) = IF kind = "blank" THEN 0 ELSE 1
              /\ kind # "blank"
                 => /\ page[1].textBlocks[1].text = TextShapes[kind].text
                    /\ page[1].textBlocks[1].posY = TextShapes[kind].posY
              /\ applied[1].anchorY = AnchorYIn(kind)

\* A text followed by a blank text: the Page has no text block and the
\* stroke has not been moved.
C28_Witness ==
    /\ pc = "done" /\ scene.kinds = <<"one", "blank">>
    /\ page[1].textBlocks = <<>>
    /\ applied[1].anchorY = 0

\* Two texts that both hold the anchor's id: the stroke stands by the
\* second one.
C28_WitnessSecond ==
    /\ pc = "done" /\ scene.kinds = <<"one", "two">>
    /\ page[1].textBlocks[1].text = <<120, 10, 121, 122>>
    /\ applied[1].anchorY = SubPx(200) + 2 * 23 * RM_WIDTH_PX

\* A text followed by a block whose decoder threw: the text has stayed.
C28_WitnessThrown ==
    /\ pc = "done" /\ scene.kinds = <<"two", "bad">>
    /\ blocks[2].outcome = "threw"
    /\ page[1].textBlocks[1].text = <<120, 10, 121, 122>>

\* --- Properties of buildFolderTree (specification SpecFolders) ---

\* Document i of the scene s has a document of the list as parent.
HasParent(s, i) == s.parent[i] \in 1..s.n

RECURSIVE Rooted(_, _, _)
\* The chain of parents from document i leaves the list within k links.
Rooted(s, i, k) ==
    \/ ~HasParent(s, i)
    \/ k > 0 /\ Rooted(s, s.parent[i], k - 1)

RECURSIVE PathOf(_, _)
\* The path of a rooted document: its name, after the path of its parent
\* and a slash when it has one.
PathOf(s, i) ==
    IF ~HasParent(s, i) THEN DocName(i)
    ELSE PathOf(s, s.parent[i]) \o Slash \o DocName(i)

\* The paths returned are those the claim describes.
PathsAsClaimed ==
    \A i \in 1..scene.n :
        i # scene.trashed
        => /\ MapHas(rt.paths, DocId(i))
           /\ MapGet(rt.paths, DocId(i))
                  = IF HasParent(scene, i)
                    THEN MapGet(rt.paths, DocId(scene.parent[i])) \o Slash \o DocName(i)
                    ELSE DocName(i)

\* C29: buildFolderTree ends for every list of documents, lists with a
\* cycle of parents included, and returns a path for every document that
\* is not trashed: the name of a document whose parent is empty, "trash" or
\* not in the list, and the parent's path, "/" and the name otherwise.
C29_FolderTreeReturns ==
    pc = "folders"
    => /\ rt.stage # "thrown"
       /\ Len(rt.stack) <= scene.n
       /\ rt.stage = "returned" => PathsAsClaimed

\* What does hold: the call throws only when the parents of a document that
\* is not trashed form a cycle, and when it returns, the paths are those
\* described.
C29_RootedTreeReturns ==
    pc = "folders"
    => /\ rt.stage = "thrown"
          => \E i \in 1..scene.n : i # scene.trashed /\ ~Rooted(scene, i, scene.n)
       /\ rt.stage = "returned"
          => /\ PathsAsClaimed
             /\ \A i \in 1..scene.n :
                    i # scene.trashed
                    => Rooted(scene, i, scene.n)
                       /\ MapGet(rt.paths, DocId(i)) = PathOf(scene, i)

\* One document that is its own parent: getPath has called itself until the
\* stack was full.
C29_Witness ==
    /\ pc = "folders" /\ rt.stage = "thrown"
    /\ scene.n = 1 /\ scene.parent[1] = 1 /\ scene.trashed = 0
    /\ Len(rt.stack) = MaxStack
    /\ rt.paths = <<>>

====
